---- MODULE Spec2Model ----
(***************************************************************************)
(* Pose angle tracking and repetition counting (HenHacks2025 frontend).    *)
(*                                                                         *)
(* One React page is mounted at a time.  Each page owns a MediaPipe        *)
(* onResults callback that runs once per video frame and a few UI          *)
(* handlers.  The module models, per page, the refs and state cells the    *)
(* callback reads and writes:                                              *)
(*   NM  NewMovement, hysteresis machine       (unnamed/part_000)          *)
(*   LG  LungeTracker, both-limbs machine      (exercises/LungeTracker)    *)
(*   ET  ExerciseTracker, combined machine     (ExerciseTracker.tsx:84)    *)
(*   TS  NewMovement, three-state machine      (exercises/PushupTracker)   *)
(*   YG  YogaPoseMatcher, weighted match score (exercises/YogaPoseMatcher) *)
(*                                                                         *)
(* Numbers.  Landmarks are points of an integer grid whose limb segments   *)
(* run along the eight compass directions, so every joint angle is an      *)
(* exact multiple of 45 degrees.  Smoothed values are kept as integers in  *)
(* units of 1/Scale.. so that the exponential moving averages are exact.   *)
(***************************************************************************)
EXTENDS Integers, Sequences, FiniteSets, TLC

VARIABLES mounted, now, nm, lg, et, ts, yg, h, fn, ap, pl, rt, pm, ar, wk

vars == <<mounted, now, nm, lg, et, ts, yg, h, fn, ap, pl, rt, pm,
          ar, wk>>

(***************************************************************************)
(* Bounds of the model.                                                    *)
(***************************************************************************)
\* frames delivered to one page (to the hysteresis page: after its first
\* completed save); it is also the number of digits kept by the
\* fixed-point values
MaxFrames == 4
\* frames delivered to the hysteresis page before its first completed save;
\* MaxFrames bounds the frames it gets after that save
MaxSetupFrames == 2
\* explicit resets: completed saveMovement runs, changes of the selected exercise
MaxResets == 1
\* clicks on the save, select and delete controls of the pose matcher
MaxUiOps == 3
\* calls of start, stop, suspendMic, resumeMic and toggleMic on one recorder
MaxCalls == 4
\* messages the worklet port delivers to one recorder
MaxMessages == 2
\* samples handed to one worklet processor
MaxSamples == 4500

(***************************************************************************)
(* Geometry: landmarks, atan2 on the compass directions, calculateAngle.   *)
(***************************************************************************)
Abs(n) == IF n < 0 THEN -n ELSE n

Pt(px, py) == [ok |-> TRUE, x |-> px, y |-> py]

\* an index the estimator did not deliver (landmarks[i] === undefined)
Undefined == [ok |-> FALSE, x |-> 0, y |-> 0]

\* Math.atan2(dy, dx) * 180 / Math.PI for a vector on a compass direction
Atan2Deg(dy, dx) ==
  CASE dx = 0 /\ dy = 0 -> 0
    [] dy = 0 /\ dx > 0 -> 0
    [] dy = 0 /\ dx < 0 -> 180
    [] dx = 0 /\ dy > 0 -> 90
    [] dx = 0 /\ dy < 0 -> -90
    [] dx > 0 /\ dy = dx -> 45
    [] dx < 0 /\ dy = -dx -> 135
    [] dx < 0 /\ dy = dx -> -135
    [] dx > 0 /\ dy = -dx -> -45

\* variant: the reflex angle is not folded back
calculateAngle_NoFold(A, B, C) ==
  Abs(Atan2Deg(C.y - B.y, C.x - B.x) - Atan2Deg(A.y - B.y, A.x - B.x))

\* variant: the bearing difference keeps its sign
calculateAngle_Signed(A, B, C) ==
  LET radians == Atan2Deg(C.y - B.y, C.x - B.x) - Atan2Deg(A.y - B.y, A.x - B.x)
  IN  IF radians > 180 THEN 360 - radians ELSE radians

calculateAngle(A, B, C) ==
  LET radians == Atan2Deg(C.y - B.y, C.x - B.x) - Atan2Deg(A.y - B.y, A.x - B.x)
      angle == Abs(radians)
  IN  IF angle > 180 THEN 360 - angle ELSE angle

\* reading .y of an undefined landmark raises a TypeError
calculateAngleThrows(A, B, C) == ~A.ok \/ ~B.ok \/ ~C.ok

(***************************************************************************)
(* The landmark frames fed to the callbacks.  A body is drawn from the     *)
(* directions of its upper arms, forearms, thighs and shins.               *)
(***************************************************************************)
LandmarkIdx == {11, 12, 13, 14, 15, 16, 23, 24, 25, 26, 27, 28}

Down == <<0, 1>>
Up == <<0, -1>>
Side == <<1, 0>>
UpSide == <<1, -1>>

Step(p, d) == Pt(p.x + 2 * d[1], p.y + 2 * d[2])

Body(armL, foreL, armR, foreR, thighL, shinL, thighR, shinR) ==
  LET ls == Pt(2, 0)
      rs == Pt(-2, 0)
      lh == Pt(2, 4)
      rh == Pt(-2, 4)
      le == Step(ls, armL)
      re == Step(rs, armR)
      lk == Step(lh, thighL)
      rk == Step(rh, thighR)
  IN  [i \in LandmarkIdx |->
        CASE i = 11 -> ls [] i = 12 -> rs
          [] i = 13 -> le [] i = 14 -> re
          [] i = 15 -> Step(le, foreL) [] i = 16 -> Step(re, foreR)
          [] i = 23 -> lh [] i = 24 -> rh
          [] i = 25 -> lk [] i = 26 -> rk
          [] i = 27 -> Step(lk, shinL) [] i = 28 -> Step(rk, shinR)]

\* standing, limbs straight: elbows 180, shoulders 0, hips 180, knees 180
F_Stand == Body(Down, Down, Down, Down, Down, Down, Down, Down)
\* both knees folded to 45 degrees
F_Deep == Body(Down, Down, Down, Down, UpSide, Down, UpSide, Down)
\* only the left knee folded
F_LeftOnly == Body(Down, Down, Down, Down, UpSide, Down, Down, Down)
\* both knees at 90 degrees
F_Half == Body(Down, Down, Down, Down, Side, Down, Side, Down)
\* standing, left knee (index 25) occluded
F_NoKnee == [F_Stand EXCEPT ![25] = Undefined]
\* legs straight, both elbows folded to 45 degrees
F_ArmsBent == Body(Down, UpSide, Down, UpSide, Down, Down, Down, Down)

\* arms raised and folded back, thighs raised and folded back: every joint
\* is 180 degrees away from standing
F_Curl == Body(Up, Down, Up, Down, Up, Down, Up, Down)

\* elbows and hips not delivered: no joint of angleJoints is complete
F_Hidden ==
  [F_Stand EXCEPT ![13] = Undefined, ![14] = Undefined,
                  ![23] = Undefined, ![24] = Undefined]

FrameLib ==
  <<F_Stand, F_Deep, F_LeftOnly, F_Half, F_NoKnee, F_ArmsBent, F_Curl, F_Hidden>>

\* results.poseLandmarks of frame id f; id 0 is "no detection" / null
NoFrame == 0
FrameIds == 1..Len(FrameLib)
Landmarks(f) == FrameLib[f]

(***************************************************************************)
(* Joint table, angle extraction and aggregate distance (part_000).        *)
(***************************************************************************)
angleJoints ==
  [rightElbow |-> <<16, 14, 12>>, rightShoulder |-> <<14, 12, 24>>,
   leftShoulder |-> <<23, 11, 13>>, leftElbow |-> <<11, 13, 15>>,
   rightHip |-> <<12, 24, 26>>, rightKnee |-> <<24, 26, 28>>,
   leftHip |-> <<11, 23, 25>>, leftKnee |-> <<23, 25, 27>>]

\* Object.keys(angleJoints), in insertion order
jointNames ==
  <<"rightElbow", "rightShoulder", "leftShoulder", "leftElbow",
    "rightHip", "rightKnee", "leftHip", "leftKnee">>

JointSet == {jointNames[i] : i \in 1..Len(jointNames)}

\* variant: a joint with an absent landmark gets the angle 0
computePoseAngles_Default(landmarks) ==
  LET present(j) == /\ landmarks[angleJoints[j][1]].ok
                    /\ landmarks[angleJoints[j][2]].ok
                    /\ landmarks[angleJoints[j][3]].ok
  IN  [j \in JointSet |->
        IF present(j)
        THEN calculateAngle(landmarks[angleJoints[j][1]],
                            landmarks[angleJoints[j][2]],
                            landmarks[angleJoints[j][3]])
        ELSE 0]

computePoseAngles(landmarks) ==
  LET present(j) == /\ landmarks[angleJoints[j][1]].ok
                    /\ landmarks[angleJoints[j][2]].ok
                    /\ landmarks[angleJoints[j][3]].ok
  IN  [j \in {k \in JointSet : present(k)} |->
        calculateAngle(landmarks[angleJoints[j][1]],
                       landmarks[angleJoints[j][2]],
                       landmarks[angleJoints[j][3]])]

\* angles[jointName] ?? 0
OrZero(angles, j) == IF j \in DOMAIN angles THEN angles[j] ELSE 0

\* variant: the differences are summed with their sign
RECURSIVE angleDistanceFrom_Signed(_, _, _)
angleDistanceFrom_Signed(i, liveAngles, referenceAngles) ==
  IF i > Len(jointNames) THEN 0
  ELSE (OrZero(liveAngles, jointNames[i]) - OrZero(referenceAngles, jointNames[i]))
       + angleDistanceFrom_Signed(i + 1, liveAngles, referenceAngles)

RECURSIVE angleDistanceFrom(_, _, _)
angleDistanceFrom(i, liveAngles, referenceAngles) ==
  IF i > Len(jointNames) THEN 0
  ELSE Abs(OrZero(liveAngles, jointNames[i]) - OrZero(referenceAngles, jointNames[i]))
       + angleDistanceFrom(i + 1, liveAngles, referenceAngles)

angleDistance(liveAngles, referenceAngles) ==
  angleDistanceFrom(1, liveAngles, referenceAngles)

(***************************************************************************)
(* Exponential moving average: alpha * raw + (1 - alpha) * old with        *)
(* alpha = num / den.  Operands are integers in units of 1/Scale, and the  *)
(* frame bound keeps the division exact.                                   *)
(***************************************************************************)
Ema(num, den, raw, old) == (num * raw + (den - num) * old) \div den

(***************************************************************************)
(* NM: NewMovement with the debounced up/down/none machine (part_000).     *)
(***************************************************************************)
ScaleNM == 10 ^ MaxFrames
thresholdStart == 150
thresholdEnd == 150
BUFFER_MS == 100
\* const alpha = 0.3
alphaNM == <<3, 10>>

\* time between two callbacks, and the delays of the two save buttons
FrameGaps == {50, 100}
Delays == {3}
\* runCountdown(delay): delay ticks of one second, then a 1000 ms timeout
CountdownMs(delay) == delay * 1000 + 1000

NMFrames == {1, 2, 3}

CueFor(phase) ==
  CASE phase = "up" -> "You're UP. Go Down!"
    [] phase = "down" -> "You're DOWN. Go Up!"
    [] OTHER -> "Move toward start or end pose."

NMInit ==
  [startPose |-> NoFrame, endPose |-> NoFrame,
   startPoseRef |-> NoFrame, endPoseRef |-> NoFrame,
   currentLandmarksRef |-> NoFrame,
   repCount |-> 0, phaseRef |-> "none", exerciseCue |-> "",
   smoothedDistToStartRef |-> 0, smoothedDistToEndRef |-> 0,
   pendingPhaseRef |-> "none", timeEnteredCandidateRef |-> 0,
   savePc |-> "idle", delay |-> 0]

\* does the callback get past "if (!startPoseRef.current || !endPoseRef.current) return"
NMRunsLogic(f) ==
  f # NoFrame /\ nm.startPoseRef # NoFrame /\ nm.endPoseRef # NoFrame

\* the angle maps and distances of the library frames, computed once
PoseAngles == [f \in FrameIds |-> computePoseAngles(Landmarks(f))]

FrameDistance ==
  [f \in FrameIds, g \in FrameIds |-> angleDistance(PoseAngles[f], PoseAngles[g])]

NMRawDistToStart(f) == FrameDistance[f, nm.startPoseRef]

NMRawDistToEnd(f) == FrameDistance[f, nm.endPoseRef]

NMNewSmoothedStart(f) ==
  Ema(alphaNM[1], alphaNM[2], NMRawDistToStart(f) * ScaleNM, nm.smoothedDistToStartRef)

NMNewSmoothedEnd(f) ==
  Ema(alphaNM[1], alphaNM[2], NMRawDistToEnd(f) * ScaleNM, nm.smoothedDistToEndRef)

\* variant: the end pose is tested first
NMCandidate_EndFirst(f) ==
  IF NMNewSmoothedEnd(f) < thresholdEnd * ScaleNM THEN "down"
  ELSE IF NMNewSmoothedStart(f) < thresholdStart * ScaleNM THEN "up"
  ELSE "none"

NMCandidate(f) ==
  IF NMNewSmoothedStart(f) < thresholdStart * ScaleNM THEN "up"
  ELSE IF NMNewSmoothedEnd(f) < thresholdEnd * ScaleNM THEN "down"
  ELSE "none"

\* variant: a repeated candidate commits without waiting
NMCommits_NoWindow(f, t) ==
  /\ NMCandidate(f) = nm.pendingPhaseRef
  /\ NMCandidate(f) # nm.phaseRef

\* the debounce: what the frame at time t does with its candidate
NMCommits(f, t) ==
  /\ NMCandidate(f) = nm.pendingPhaseRef
  /\ t - nm.timeEnteredCandidateRef >= BUFFER_MS
  /\ NMCandidate(f) # nm.phaseRef

\* variant: a changed candidate replaces the pending phase but keeps the
\* old candidate-since timestamp
NMAfterFrame_StaleStamp(f, t) ==
  IF f = NoFrame THEN nm
  ELSE IF ~NMRunsLogic(f) THEN [nm EXCEPT !.currentLandmarksRef = f]
  ELSE
    LET candidate == NMCandidate(f)
        smoothed == [nm EXCEPT !.currentLandmarksRef = f,
                               !.smoothedDistToStartRef = NMNewSmoothedStart(f),
                               !.smoothedDistToEndRef = NMNewSmoothedEnd(f)]
    IN  IF candidate # nm.pendingPhaseRef
        THEN [smoothed EXCEPT !.pendingPhaseRef = candidate,
                              !.exerciseCue = CueFor(nm.phaseRef)]
        ELSE IF NMCommits(f, t)
        THEN [smoothed EXCEPT
                !.repCount = IF nm.phaseRef = "down" /\ candidate = "up"
                             THEN @ + 1 ELSE @,
                !.phaseRef = candidate,
                !.exerciseCue = CueFor(candidate)]
        ELSE [smoothed EXCEPT !.exerciseCue = CueFor(nm.phaseRef)]

\* variant: a changed candidate is committed on the frame that first sees it
NMAfterFrame_Eager(f, t) ==
  IF f = NoFrame THEN nm
  ELSE IF ~NMRunsLogic(f) THEN [nm EXCEPT !.currentLandmarksRef = f]
  ELSE
    LET candidate == NMCandidate(f)
        smoothed == [nm EXCEPT !.currentLandmarksRef = f,
                               !.smoothedDistToStartRef = NMNewSmoothedStart(f),
                               !.smoothedDistToEndRef = NMNewSmoothedEnd(f)]
    IN  IF candidate # nm.pendingPhaseRef
        THEN [smoothed EXCEPT !.pendingPhaseRef = candidate,
                              !.timeEnteredCandidateRef = t,
                              !.phaseRef = candidate,
                              !.exerciseCue = CueFor(candidate)]
        ELSE IF NMCommits(f, t)
        THEN [smoothed EXCEPT
                !.repCount = IF nm.phaseRef = "down" /\ candidate = "up"
                             THEN @ + 1 ELSE @,
                !.phaseRef = candidate,
                !.exerciseCue = CueFor(candidate)]
        ELSE [smoothed EXCEPT !.exerciseCue = CueFor(nm.phaseRef)]

\* variant: a commit credits the repetition but does not latch the phase
NMAfterFrame_NoLatch(f, t) ==
  IF f = NoFrame THEN nm
  ELSE IF ~NMRunsLogic(f) THEN [nm EXCEPT !.currentLandmarksRef = f]
  ELSE
    LET candidate == NMCandidate(f)
        smoothed == [nm EXCEPT !.currentLandmarksRef = f,
                               !.smoothedDistToStartRef = NMNewSmoothedStart(f),
                               !.smoothedDistToEndRef = NMNewSmoothedEnd(f)]
    IN  IF candidate # nm.pendingPhaseRef
        THEN [smoothed EXCEPT !.pendingPhaseRef = candidate,
                              !.timeEnteredCandidateRef = t,
                              !.exerciseCue = CueFor(nm.phaseRef)]
        ELSE IF NMCommits(f, t)
        THEN [smoothed EXCEPT
                !.repCount = IF nm.phaseRef = "down" /\ candidate = "up"
                             THEN @ + 1 ELSE @,
                !.phaseRef = IF candidate = "up" THEN @ ELSE candidate,
                !.exerciseCue = CueFor(candidate)]
        ELSE [smoothed EXCEPT !.exerciseCue = CueFor(nm.phaseRef)]

NMAfterFrame(f, t) ==
  IF f = NoFrame THEN nm
  ELSE IF ~NMRunsLogic(f) THEN [nm EXCEPT !.currentLandmarksRef = f]
  ELSE
    LET candidate == NMCandidate(f)
        smoothed == [nm EXCEPT !.currentLandmarksRef = f,
                               !.smoothedDistToStartRef = NMNewSmoothedStart(f),
                               !.smoothedDistToEndRef = NMNewSmoothedEnd(f)]
    IN  IF candidate # nm.pendingPhaseRef
        THEN [smoothed EXCEPT !.pendingPhaseRef = candidate,
                              !.timeEnteredCandidateRef = t,
                              !.exerciseCue = CueFor(nm.phaseRef)]
        ELSE IF NMCommits(f, t)
        THEN [smoothed EXCEPT
                !.repCount = IF nm.phaseRef = "down" /\ candidate = "up"
                             THEN @ + 1 ELSE @,
                !.phaseRef = candidate,
                !.exerciseCue = CueFor(candidate)]
        ELSE [smoothed EXCEPT !.exerciseCue = CueFor(nm.phaseRef)]

(***************************************************************************)
(* History of the run, kept beside the program state: frame and save       *)
(* counters, whether the last callback threw, and a summary of the current *)
(* and of the previous run of equal candidates.                            *)
(***************************************************************************)
NoRun == [cand |-> "-", span |-> 0, commits |-> 0, phase0 |-> "-", rep0 |-> 0]

HInit ==
  [frames |-> 0, resets |-> 0, saves |-> 0, repAtReset |-> 0, threw |-> FALSE,
   obs |-> 0, rawA |-> 0, rawB |-> 0,
   cand |-> "-", runStart |-> 0, lastT |-> 0, runCommits |-> 0,
   runPhase0 |-> "-", runRep0 |-> 0, prev |-> NoRun, lowSeen |-> FALSE,
   uiOp |-> "-", uiArg |-> "", delay |-> 0, ticks |-> 0, itemAtClick |-> 0,
   frame |-> 0, downs |-> 0]

\* the history after a callback that derived candidate c at time t and
\* left the component in nm'
NMHistory(f, t) ==
  LET c == NMCandidate(f)
      commit == IF nm'.phaseRef # nm.phaseRef THEN 1 ELSE 0
      seen == [h EXCEPT !.frames = @ + 1, !.threw = FALSE, !.obs = @ + 1,
                        !.rawA = NMRawDistToStart(f), !.rawB = NMRawDistToEnd(f),
                        !.cand = c, !.lastT = t]
  IN  IF ~NMRunsLogic(f) THEN [h EXCEPT !.frames = @ + 1, !.threw = FALSE]
      ELSE IF c # h.cand
      THEN [seen EXCEPT
              !.prev = IF h.cand = "-" THEN NoRun
                       ELSE [cand |-> h.cand, span |-> h.lastT - h.runStart,
                             commits |-> h.runCommits, phase0 |-> h.runPhase0,
                             rep0 |-> h.runRep0],
              !.runStart = t, !.runCommits = commit,
              !.runPhase0 = nm.phaseRef, !.runRep0 = nm.repCount]
      ELSE [seen EXCEPT !.runCommits = @ + commit]

NMonResults(f, dt) ==
  /\ mounted = "NM"
  /\ h.frames < (IF h.resets = 0 THEN MaxSetupFrames ELSE MaxFrames)
  /\ now' = now + dt
  /\ nm' = NMAfterFrame(f, now + dt)
  /\ h' = NMHistory(f, now + dt)
  /\ UNCHANGED <<mounted, ar, wk, pm, rt, fn, ap, pl, lg, et, ts, yg>>

\* the effects that copy startPose / endPose into their refs after a render
NMRunEffects ==
  /\ mounted = "NM"
  /\ nm.startPoseRef # nm.startPose \/ nm.endPoseRef # nm.endPose
  /\ nm' = [nm EXCEPT !.startPoseRef = nm.startPose, !.endPoseRef = nm.endPose]
  /\ UNCHANGED <<mounted, ar, wk, pm, rt, fn, ap, pl, now, lg, et, ts, yg, h>>

\* click on a save button: saveMovement up to its first await
NMsaveMovement(delay) ==
  /\ mounted = "NM"
  /\ nm.savePc = "idle"
  /\ h.resets < MaxResets
  /\ nm.currentLandmarksRef # NoFrame
  /\ nm' = [nm EXCEPT !.savePc = "countdown1", !.delay = delay]
  /\ UNCHANGED <<mounted, ar, wk, pm, rt, fn, ap, pl, now, lg, et, ts, yg, h>>

\* first countdown over: the start pose is captured
NMCaptureStart ==
  /\ mounted = "NM"
  /\ nm.savePc = "countdown1"
  /\ now' = now + CountdownMs(nm.delay)
  /\ nm' = [nm EXCEPT !.startPose = nm.currentLandmarksRef, !.savePc = "countdown2"]
  /\ UNCHANGED <<mounted, ar, wk, pm, rt, fn, ap, pl, lg, et, ts, yg, h>>

\* second countdown over: the end pose is captured and the machine is reset
NMCaptureEndAndReset ==
  /\ mounted = "NM"
  /\ nm.savePc = "countdown2"
  /\ now' = 0
  /\ nm' = [nm EXCEPT !.endPose = nm.currentLandmarksRef,
                      !.repCount = 0,
                      !.phaseRef = "none",
                      !.pendingPhaseRef = "none",
                      !.timeEnteredCandidateRef = 0,
                      !.smoothedDistToStartRef = 0,
                      !.smoothedDistToEndRef = 0,
                      !.exerciseCue = "Try moving to start or end pose!",
                      !.savePc = "idle", !.delay = 0]
  /\ h' = [HInit EXCEPT !.frames = IF h.resets = 0 THEN 0 ELSE h.frames,
                        !.resets = h.resets + 1, !.repAtReset = nm.repCount]
  /\ UNCHANGED <<mounted, ar, wk, pm, rt, fn, ap, pl, lg, et, ts, yg>>

NMNext ==
  \/ \E f \in NMFrames \cup {NoFrame}, dt \in FrameGaps : NMonResults(f, dt)
  \/ NMRunEffects
  \/ \E d \in Delays : NMsaveMovement(d)
  \/ NMCaptureStart
  \/ NMCaptureEndAndReset

(***************************************************************************)
(* LG: LungeTracker, both knees must agree (exercises/LungeTracker.tsx).   *)
(* ET: ExerciseTracker, the same machine with a rule per selected exercise *)
(* (ExerciseTracker.tsx:84).  Smoothing refs hold null until the first     *)
(* observation; Null stands for null.                                      *)
(***************************************************************************)
Null == -1
\* const alpha = 0.65
alphaLimb == <<13, 20>>
ScaleLimb == 20 ^ (MaxFrames - 1)

\* first observation seeds the ref, later ones are blended
smoothLimb(ref, angle) ==
  IF ref = Null THEN angle * ScaleLimb
  ELSE Ema(alphaLimb[1], alphaLimb[2], angle * ScaleLimb, ref)

\* variant: the left limb alone decides
limbPhase_LeftDecides(phase, smoothedLeft, smoothedRight, minAngle, maxAngle) ==
  LET p1 == IF phase = "up" /\ smoothedLeft < minAngle * ScaleLimb
            THEN "down" ELSE phase
  IN  IF p1 = "down" /\ smoothedLeft > maxAngle * ScaleLimb
      THEN "up" ELSE p1

\* variant: the thresholds themselves already switch the phase
limbPhase_Inclusive(phase, smoothedLeft, smoothedRight, minAngle, maxAngle) ==
  LET p1 == IF /\ phase = "up"
               /\ smoothedLeft <= minAngle * ScaleLimb
               /\ smoothedRight <= minAngle * ScaleLimb
            THEN "down" ELSE phase
  IN  IF /\ p1 = "down"
         /\ smoothedLeft >= maxAngle * ScaleLimb
         /\ smoothedRight >= maxAngle * ScaleLimb
      THEN "up" ELSE p1

\* the two "if" statements of the phase logic, in order
limbPhase(phase, smoothedLeft, smoothedRight, minAngle, maxAngle) ==
  LET p1 == IF /\ phase = "up"
               /\ smoothedLeft < minAngle * ScaleLimb
               /\ smoothedRight < minAngle * ScaleLimb
            THEN "down" ELSE phase
  IN  IF /\ p1 = "down"
         /\ smoothedLeft > maxAngle * ScaleLimb
         /\ smoothedRight > maxAngle * ScaleLimb
      THEN "up" ELSE p1

\* a repetition is credited when the second "if" fires
limbRep(phase, smoothedLeft, smoothedRight, minAngle, maxAngle) ==
  LET p1 == IF /\ phase = "up"
               /\ smoothedLeft < minAngle * ScaleLimb
               /\ smoothedRight < minAngle * ScaleLimb
            THEN "down" ELSE phase
  IN  IF /\ p1 = "down"
         /\ smoothedLeft > maxAngle * ScaleLimb
         /\ smoothedRight > maxAngle * ScaleLimb
      THEN 1 ELSE 0

lungeJoints == [left |-> <<23, 25, 27>>, right |-> <<24, 26, 28>>]
minAngleLG == 90
maxAngleLG == 170

LGFrames == {1, 2, 3, 4, 5}

LGInit ==
  [leftAngleSmoothingRef |-> Null, rightAngleSmoothingRef |-> Null,
   repCount |-> 0, phaseRef |-> "up"]

limbAngle(landmarks, joint) ==
  calculateAngle(landmarks[joint[1]], landmarks[joint[2]], landmarks[joint[3]])

limbThrows(landmarks, joint) ==
  calculateAngleThrows(landmarks[joint[1]], landmarks[joint[2]], landmarks[joint[3]])

LGThrows(f) ==
  /\ f # NoFrame
  /\ \/ limbThrows(Landmarks(f), lungeJoints.left)
     \/ limbThrows(Landmarks(f), lungeJoints.right)

LGAfterFrame(f) ==
  IF f = NoFrame \/ LGThrows(f) THEN lg
  ELSE
    LET leftAngle == limbAngle(Landmarks(f), lungeJoints.left)
        rightAngle == limbAngle(Landmarks(f), lungeJoints.right)
        smoothedLeft == smoothLimb(lg.leftAngleSmoothingRef, leftAngle)
        smoothedRight == smoothLimb(lg.rightAngleSmoothingRef, rightAngle)
    IN  [leftAngleSmoothingRef |-> smoothedLeft,
         rightAngleSmoothingRef |-> smoothedRight,
         phaseRef |-> limbPhase(lg.phaseRef, smoothedLeft, smoothedRight,
                                minAngleLG, maxAngleLG),
         repCount |-> lg.repCount + limbRep(lg.phaseRef, smoothedLeft, smoothedRight,
                                            minAngleLG, maxAngleLG)]

\* history of a limb callback: the raw angles it observed, if any
LimbHistory(f, throws, left, right) ==
  IF f = NoFrame \/ throws
  THEN [h EXCEPT !.frames = @ + 1, !.threw = throws]
  ELSE [h EXCEPT !.frames = @ + 1, !.threw = FALSE, !.obs = @ + 1,
                 !.rawA = left, !.rawB = right]

LGonResults(f) ==
  /\ mounted = "LG"
  /\ h.frames < MaxFrames
  /\ lg' = LGAfterFrame(f)
  /\ h' = [LimbHistory(f, LGThrows(f),
                       IF LGThrows(f) \/ f = NoFrame THEN 0
                       ELSE limbAngle(Landmarks(f), lungeJoints.left),
                       IF LGThrows(f) \/ f = NoFrame THEN 0
                       ELSE limbAngle(Landmarks(f), lungeJoints.right))
            EXCEPT !.downs = IF lg.phaseRef = "up" /\ lg'.phaseRef = "down"
                             THEN @ + 1 ELSE @]
  /\ UNCHANGED <<mounted, ar, wk, pm, rt, fn, ap, pl, now, nm, et, ts, yg>>

LGNext == \E f \in LGFrames \cup {NoFrame} : LGonResults(f)

Exercises == {"squat", "pushup", "lunge"}

exerciseRules ==
  [squat |-> [left |-> <<23, 25, 27>>, right |-> <<24, 26, 28>>,
              minAngle |-> 90, maxAngle |-> 160],
   pushup |-> [left |-> <<11, 13, 15>>, right |-> <<12, 14, 16>>,
               minAngle |-> 80, maxAngle |-> 160],
   lunge |-> [left |-> <<23, 25, 27>>, right |-> <<24, 26, 28>>,
              minAngle |-> 90, maxAngle |-> 170]]

ETFrames == {1, 2, 5, 6}

\* closureExercise is the selectedExercise captured by the callback that the
\* effect installed last; the effect runs again after the selection changes
ETInit ==
  [selectedExercise |-> "squat", closureExercise |-> "squat",
   leftAngleSmoothingRef |-> Null, rightAngleSmoothingRef |-> Null,
   repCount |-> 0, phaseRef |-> "up"]

ETThrows(f) ==
  /\ f # NoFrame
  /\ \/ limbThrows(Landmarks(f), exerciseRules[et.closureExercise].left)
     \/ limbThrows(Landmarks(f), exerciseRules[et.closureExercise].right)

ETAfterFrame(f) ==
  IF f = NoFrame \/ ETThrows(f) THEN et
  ELSE
    LET rule == exerciseRules[et.closureExercise]
        leftAngle == limbAngle(Landmarks(f), rule.left)
        rightAngle == limbAngle(Landmarks(f), rule.right)
        smoothedLeft == smoothLimb(et.leftAngleSmoothingRef, leftAngle)
        smoothedRight == smoothLimb(et.rightAngleSmoothingRef, rightAngle)
    IN  [et EXCEPT
          !.leftAngleSmoothingRef = smoothedLeft,
          !.rightAngleSmoothingRef = smoothedRight,
          !.phaseRef = limbPhase(et.phaseRef, smoothedLeft, smoothedRight,
                                 rule.minAngle, rule.maxAngle),
          !.repCount = @ + limbRep(et.phaseRef, smoothedLeft, smoothedRight,
                                   rule.minAngle, rule.maxAngle)]

ETonResults(f) ==
  /\ mounted = "ET"
  /\ h.frames < MaxFrames
  /\ et' = ETAfterFrame(f)
  /\ h' = LimbHistory(f, ETThrows(f),
                      IF ETThrows(f) \/ f = NoFrame THEN 0
                      ELSE limbAngle(Landmarks(f), exerciseRules[et.closureExercise].left),
                      IF ETThrows(f) \/ f = NoFrame THEN 0
                      ELSE limbAngle(Landmarks(f), exerciseRules[et.closureExercise].right))
  /\ UNCHANGED <<mounted, ar, wk, pm, rt, fn, ap, pl, now, nm, lg, ts, yg>>

\* variant: the handler forgets setRepCount(0)
ETonChange_KeepsCount(e) ==
  /\ mounted = "ET"
  /\ e # et.selectedExercise
  /\ h.resets < MaxResets
  /\ et' = [et EXCEPT !.selectedExercise = e, !.phaseRef = "up"]
  /\ h' = [h EXCEPT !.resets = @ + 1, !.repAtReset = et.repCount, !.obs = 0,
                    !.threw = FALSE]
  /\ UNCHANGED <<mounted, ar, wk, pm, rt, fn, ap, pl, now, nm, lg, ts, yg>>

\* the select's onChange handler
ETonChange(e) ==
  /\ mounted = "ET"
  /\ e # et.selectedExercise
  /\ h.resets < MaxResets
  /\ et' = [et EXCEPT !.selectedExercise = e, !.repCount = 0, !.phaseRef = "up"]
  /\ h' = [h EXCEPT !.resets = @ + 1, !.repAtReset = et.repCount, !.obs = 0,
                    !.threw = FALSE]
  /\ UNCHANGED <<mounted, ar, wk, pm, rt, fn, ap, pl, now, nm, lg, ts, yg>>

\* the effect with dependency [selectedExercise] installs a new callback
ETRunEffects ==
  /\ mounted = "ET"
  /\ et.closureExercise # et.selectedExercise
  /\ et' = [et EXCEPT !.closureExercise = et.selectedExercise]
  /\ UNCHANGED <<mounted, ar, wk, pm, rt, fn, ap, pl, now, nm, lg, ts, yg, h>>

ETNext ==
  \/ \E f \in ETFrames \cup {NoFrame} : ETonResults(f)
  \/ \E e \in Exercises : ETonChange(e)
  \/ ETRunEffects

(***************************************************************************)
(* PL: the per-leg LungeTracker (part_003): one phase per leg, one shared  *)
(* repetition counter.  leftPhase / rightPhase, the state cells written    *)
(* together with the refs, always equal them and are left out.             *)
(***************************************************************************)
PLFrames == {1, 2, 3, 5}

PLInit ==
  [leftAngleSmoothingRef |-> Null, rightAngleSmoothingRef |-> Null,
   leftPhaseRef |-> "up", rightPhaseRef |-> "up", repCount |-> 0]

\* the if / else-if of one leg
legPhase(phase, smoothed) ==
  IF phase = "up" /\ smoothed < minAngleLG * ScaleLimb THEN "down"
  ELSE IF phase = "down" /\ smoothed > maxAngleLG * ScaleLimb THEN "up"
  ELSE phase

\* setRepCount(prev => prev + 1) of the else-if branch
legRep(phase, smoothed) ==
  IF phase = "down" /\ smoothed > maxAngleLG * ScaleLimb THEN 1 ELSE 0

\* variant: the right leg is judged by the left angle
PLAfterFrame_RightFollowsLeft(f) ==
  IF f = NoFrame \/ LGThrows(f) THEN pl
  ELSE
    LET smoothedLeft == smoothLimb(pl.leftAngleSmoothingRef,
                                   limbAngle(Landmarks(f), lungeJoints.left))
        smoothedRight == smoothLimb(pl.rightAngleSmoothingRef,
                                    limbAngle(Landmarks(f), lungeJoints.right))
    IN  [leftAngleSmoothingRef |-> smoothedLeft,
         rightAngleSmoothingRef |-> smoothedRight,
         leftPhaseRef |-> legPhase(pl.leftPhaseRef, smoothedLeft),
         rightPhaseRef |-> legPhase(pl.rightPhaseRef, smoothedLeft),
         repCount |-> pl.repCount + legRep(pl.leftPhaseRef, smoothedLeft)
                       + legRep(pl.rightPhaseRef, smoothedLeft)]

PLAfterFrame(f) ==
  IF f = NoFrame \/ LGThrows(f) THEN pl
  ELSE
    LET smoothedLeft == smoothLimb(pl.leftAngleSmoothingRef,
                                   limbAngle(Landmarks(f), lungeJoints.left))
        smoothedRight == smoothLimb(pl.rightAngleSmoothingRef,
                                    limbAngle(Landmarks(f), lungeJoints.right))
    IN  [leftAngleSmoothingRef |-> smoothedLeft,
         rightAngleSmoothingRef |-> smoothedRight,
         leftPhaseRef |-> legPhase(pl.leftPhaseRef, smoothedLeft),
         rightPhaseRef |-> legPhase(pl.rightPhaseRef, smoothedRight),
         repCount |-> pl.repCount + legRep(pl.leftPhaseRef, smoothedLeft)
                       + legRep(pl.rightPhaseRef, smoothedRight)]

PLonResults(f) ==
  /\ mounted = "PL"
  /\ h.frames < MaxFrames
  /\ pl' = PLAfterFrame(f)
  /\ h' = LimbHistory(f, LGThrows(f),
                      IF LGThrows(f) \/ f = NoFrame THEN 0
                      ELSE limbAngle(Landmarks(f), lungeJoints.left),
                      IF LGThrows(f) \/ f = NoFrame THEN 0
                      ELSE limbAngle(Landmarks(f), lungeJoints.right))
  /\ UNCHANGED <<mounted, ar, wk, pm, rt, fn, ap, now, nm, lg, et, ts, yg>>

PLNext == \E f \in PLFrames \cup {NoFrame} : PLonResults(f)

(***************************************************************************)
(* AP: the single-limb counter of App.tsx.  onPoseDetected is handed to    *)
(* the estimator once, by the effect with dependency [], so it keeps the   *)
(* selectedExercise of the first render.                                   *)
(***************************************************************************)
appRules ==
  [squat |-> [joints |-> <<24, 26, 28>>, minAngle |-> 90, maxAngle |-> 160],
   pushup |-> [joints |-> <<12, 14, 16>>, minAngle |-> 90, maxAngle |-> 160],
   lunge |-> [joints |-> <<24, 26, 28>>, minAngle |-> 90, maxAngle |-> 160]]

APFrames == {1, 2, 4}

APInit ==
  [selectedExercise |-> "squat", closureExercise |-> "squat",
   isSquattingRef |-> FALSE, squatCountRef |-> 0]

\* results.poseLandmarks is there and the three joints are truthy
APMeasures(f) ==
  /\ f # NoFrame
  /\ \A k \in 1..3 : Landmarks(f)[appRules[ap.closureExercise].joints[k]].ok

APAngle(f) == limbAngle(Landmarks(f), appRules[ap.closureExercise].joints)

APAfterFrame(f) ==
  IF ~APMeasures(f) THEN ap
  ELSE
    LET exercise == appRules[ap.closureExercise]
        angle == APAngle(f)
    IN  IF angle < exercise.minAngle /\ ~ap.isSquattingRef
        THEN [ap EXCEPT !.isSquattingRef = TRUE]
        ELSE IF angle > exercise.maxAngle /\ ap.isSquattingRef
        THEN [ap EXCEPT !.isSquattingRef = FALSE, !.squatCountRef = @ + 1]
        ELSE ap

onPoseDetected(f) ==
  /\ mounted = "AP"
  /\ h.frames < MaxFrames
  /\ ap' = APAfterFrame(f)
  /\ h' = IF ~APMeasures(f) THEN [h EXCEPT !.frames = @ + 1]
          ELSE [h EXCEPT !.frames = @ + 1, !.obs = @ + 1, !.rawA = APAngle(f),
                         !.lowSeen = @ \/ APAngle(f)
                                            < appRules[ap.closureExercise].minAngle,
                         !.downs = IF ~ap.isSquattingRef /\ ap'.isSquattingRef
                                   THEN @ + 1 ELSE @]
  /\ UNCHANGED <<mounted, ar, wk, pm, rt, fn, pl, now, nm, lg, et, ts, yg>>

\* the select's onChange handler of App.tsx
APonChange(e) ==
  /\ mounted = "AP"
  /\ e # ap.selectedExercise
  /\ h.resets < MaxResets
  /\ ap' = [ap EXCEPT !.selectedExercise = e, !.squatCountRef = 0]
  /\ h' = [h EXCEPT !.resets = @ + 1, !.repAtReset = ap.squatCountRef,
                    !.obs = 0, !.lowSeen = FALSE]
  /\ UNCHANGED <<mounted, ar, wk, pm, rt, fn, pl, now, nm, lg, et, ts, yg>>

APNext ==
  \/ \E f \in APFrames \cup {NoFrame} : onPoseDetected(f)
  \/ \E e \in Exercises : APonChange(e)

(***************************************************************************)
(* RT: the push-up counter of ResistanceTracker.tsx (second version, from  *)
(* line 152): one committed phase driven by the smoothed average of the    *)
(* two elbow angles.  The smoothed value is kept in units of 1/ScaleRT so  *)
(* that the half of an odd sum stays an integer.                           *)
(***************************************************************************)
pushupJoints == [left |-> <<11, 13, 15>>, right |-> <<12, 14, 16>>]
maxPushupAngle == 160
minPushupAngle == 90
ScaleRT == 2 * ScaleLimb

RTFrames == {1, 6, 8}

RTInit == [elbowAngleSmoothingRef |-> Null, phaseRef |-> "up", repCount |-> 0]

\* calculateAngle is called on both arms without a guard
RTThrows(f) ==
  /\ f # NoFrame
  /\ \/ limbThrows(Landmarks(f), pushupJoints.left)
     \/ limbThrows(Landmarks(f), pushupJoints.right)

\* (leftAngle + rightAngle) / 2, seeded or blended with alpha = 0.65
smoothElbow(ref, leftAngle, rightAngle) ==
  IF ref = Null THEN (leftAngle + rightAngle) * ScaleLimb
  ELSE Ema(alphaLimb[1], alphaLimb[2], (leftAngle + rightAngle) * ScaleLimb, ref)

\* variant: an extended elbow is credited whatever the committed phase
RTAfterFrame_CountsExtended(f) ==
  IF f = NoFrame \/ RTThrows(f) THEN rt
  ELSE
    LET smoothedElbow ==
          smoothElbow(rt.elbowAngleSmoothingRef,
                      limbAngle(Landmarks(f), pushupJoints.left),
                      limbAngle(Landmarks(f), pushupJoints.right))
    IN  IF rt.phaseRef = "up" /\ smoothedElbow < minPushupAngle * ScaleRT
        THEN [rt EXCEPT !.elbowAngleSmoothingRef = smoothedElbow,
                        !.phaseRef = "down"]
        ELSE IF smoothedElbow > maxPushupAngle * ScaleRT
        THEN [rt EXCEPT !.elbowAngleSmoothingRef = smoothedElbow,
                        !.phaseRef = "up", !.repCount = @ + 1]
        ELSE [rt EXCEPT !.elbowAngleSmoothingRef = smoothedElbow]

\* the if / else-if on the smoothed elbow angle
RTAfterFrame(f) ==
  IF f = NoFrame \/ RTThrows(f) THEN rt
  ELSE
    LET smoothedElbow ==
          smoothElbow(rt.elbowAngleSmoothingRef,
                      limbAngle(Landmarks(f), pushupJoints.left),
                      limbAngle(Landmarks(f), pushupJoints.right))
    IN  IF rt.phaseRef = "up" /\ smoothedElbow < minPushupAngle * ScaleRT
        THEN [rt EXCEPT !.elbowAngleSmoothingRef = smoothedElbow,
                        !.phaseRef = "down"]
        ELSE IF rt.phaseRef = "down" /\ smoothedElbow > maxPushupAngle * ScaleRT
        THEN [rt EXCEPT !.elbowAngleSmoothingRef = smoothedElbow,
                        !.phaseRef = "up", !.repCount = @ + 1]
        ELSE [rt EXCEPT !.elbowAngleSmoothingRef = smoothedElbow]

RTonResults(f) ==
  /\ mounted = "RT"
  /\ h.frames < MaxFrames
  /\ rt' = RTAfterFrame(f)
  /\ h' = [h EXCEPT !.frames = @ + 1, !.threw = RTThrows(f),
                    !.obs = IF rt'.elbowAngleSmoothingRef # rt.elbowAngleSmoothingRef
                            THEN @ + 1 ELSE @,
                    !.downs = IF rt.phaseRef = "up" /\ rt'.phaseRef = "down"
                              THEN @ + 1 ELSE @]
  /\ UNCHANGED <<mounted, ar, wk, pm, fn, ap, pl, now, nm, lg, et, ts, yg>>

RTNext == \E f \in RTFrames \cup {NoFrame} : RTonResults(f)

(***************************************************************************)
(* TS: NewMovement with the AT_START / AT_END / IN_BETWEEN machine         *)
(* (exercises/PushupTracker.tsx).  The callback compares against           *)
(* userPoseStateRef, which an effect copies from the userPoseState state   *)
(* after the next render.  Saved angle maps are named by the frame they    *)
(* were computed from; Unsaved stands for null.                            *)
(***************************************************************************)
Unsaved == -1

\* computePoseAngles(latestLandmarksRef.current || [])
AnglesOf(f) == IF f = NoFrame THEN [j \in {} |-> 0] ELSE PoseAngles[f]

Min(a, b) == IF a < b THEN a ELSE b
Max(a, b) == IF a > b THEN a ELSE b

\* tempMin / tempMax of saveMovement
minAnglesOf(s, e) ==
  [j \in JointSet |-> Min(OrZero(AnglesOf(s), j), OrZero(AnglesOf(e), j))]

maxAnglesOf(s, e) ==
  [j \in JointSet |-> Max(OrZero(AnglesOf(s), j), OrZero(AnglesOf(e), j))]

\* variant: a difference equal to the tolerance already fails
RECURSIVE isNearPoseFrom_Strict(_, _, _, _)
isNearPoseFrom_Strict(i, liveAngles, targetAngles, tolerance) ==
  IF i > Len(jointNames) THEN TRUE
  ELSE IF Abs(OrZero(liveAngles, jointNames[i]) - OrZero(targetAngles, jointNames[i]))
          >= tolerance
  THEN FALSE
  ELSE isNearPoseFrom_Strict(i + 1, liveAngles, targetAngles, tolerance)

\* variant: a joint without a live angle is passed over
RECURSIVE isNearPoseFrom_SkipsMissing(_, _, _, _)
isNearPoseFrom_SkipsMissing(i, liveAngles, targetAngles, tolerance) ==
  IF i > Len(jointNames) THEN TRUE
  ELSE IF /\ jointNames[i] \in DOMAIN liveAngles
          /\ Abs(liveAngles[jointNames[i]] - OrZero(targetAngles, jointNames[i]))
               > tolerance
  THEN FALSE
  ELSE isNearPoseFrom_SkipsMissing(i + 1, liveAngles, targetAngles, tolerance)

RECURSIVE isNearPoseFrom(_, _, _, _)
isNearPoseFrom(i, liveAngles, targetAngles, tolerance) ==
  IF i > Len(jointNames) THEN TRUE
  ELSE IF Abs(OrZero(liveAngles, jointNames[i]) - OrZero(targetAngles, jointNames[i]))
          > tolerance
  THEN FALSE
  ELSE isNearPoseFrom(i + 1, liveAngles, targetAngles, tolerance)

isNearPose(liveAngles, targetAngles, tolerance) ==
  isNearPoseFrom(1, liveAngles, targetAngles, tolerance)

\* isPoseMatch of the isPoseMatch variant (part_002): the same loop
RECURSIVE isPoseMatchFrom(_, _, _, _)
isPoseMatchFrom(i, liveAngles, refAngles, threshold) ==
  IF i > Len(jointNames) THEN TRUE
  ELSE IF Abs(OrZero(liveAngles, jointNames[i]) - OrZero(refAngles, jointNames[i]))
          > threshold
  THEN FALSE
  ELSE isPoseMatchFrom(i + 1, liveAngles, refAngles, threshold)

isPoseMatch(liveAngles, refAngles, threshold) ==
  isPoseMatchFrom(1, liveAngles, refAngles, threshold)

NoMinMax == [saved |-> FALSE, s |-> NoFrame, e |-> NoFrame]

TSFrames == {1, 2, 3}

TSInit ==
  [latestLandmarksRef |-> NoFrame,
   startPoseAngles |-> Unsaved, endPoseAngles |-> Unsaved,
   startPoseAnglesRef |-> Unsaved, endPoseAnglesRef |-> Unsaved,
   minMax |-> NoMinMax, closureMinMax |-> NoMinMax,
   userPoseState |-> "IN_BETWEEN", userPoseStateRef |-> "IN_BETWEEN",
   repCount |-> 0, savePc |-> "idle"]

TSRunsLogic(f) ==
  /\ f # NoFrame
  /\ ts.startPoseAnglesRef # Unsaved
  /\ ts.endPoseAnglesRef # Unsaved
  /\ ts.closureMinMax.saved

TSNewState(f) ==
  LET liveAngles == computePoseAngles(Landmarks(f))
      isAtStart == isNearPose(liveAngles,
                              minAnglesOf(ts.closureMinMax.s, ts.closureMinMax.e), 10)
      isAtEnd == isNearPose(liveAngles,
                            maxAnglesOf(ts.closureMinMax.s, ts.closureMinMax.e), 10)
  IN  IF isAtStart THEN "AT_START" ELSE IF isAtEnd THEN "AT_END" ELSE "IN_BETWEEN"

TSAfterFrame(f) ==
  IF f = NoFrame THEN ts
  ELSE IF ~TSRunsLogic(f) THEN [ts EXCEPT !.latestLandmarksRef = f]
  ELSE
    LET newState == TSNewState(f)
    IN  IF newState # ts.userPoseStateRef
        THEN [ts EXCEPT
                !.latestLandmarksRef = f,
                !.repCount = IF ts.userPoseStateRef = "AT_START" /\ newState = "AT_END"
                             THEN @ + 1 ELSE @,
                !.userPoseState = newState]
        ELSE [ts EXCEPT !.latestLandmarksRef = f]

TSonResults(f) ==
  /\ mounted = "TS"
  /\ h.frames < MaxFrames
  /\ ts' = TSAfterFrame(f)
  /\ h' = [h EXCEPT !.frames = @ + 1, !.threw = FALSE]
  /\ UNCHANGED <<mounted, ar, wk, pm, rt, fn, ap, pl, now, nm, lg, et, yg>>

\* the passive effects of the last render: the refs follow their state cells
\* and the callback is re-created with the current minAngles / maxAngles
TSRunEffects ==
  /\ mounted = "TS"
  /\ \/ ts.startPoseAnglesRef # ts.startPoseAngles
     \/ ts.endPoseAnglesRef # ts.endPoseAngles
     \/ ts.userPoseStateRef # ts.userPoseState
     \/ ts.closureMinMax # ts.minMax
  /\ ts' = [ts EXCEPT !.startPoseAnglesRef = ts.startPoseAngles,
                      !.endPoseAnglesRef = ts.endPoseAngles,
                      !.userPoseStateRef = ts.userPoseState,
                      !.closureMinMax = ts.minMax]
  /\ UNCHANGED <<mounted, ar, wk, pm, rt, fn, ap, pl, now, nm, lg, et, yg, h>>

TSsaveMovement ==
  /\ mounted = "TS"
  /\ ts.savePc = "idle"
  /\ h.saves < MaxResets
  /\ ts' = [ts EXCEPT !.savePc = "countdown1"]
  /\ UNCHANGED <<mounted, ar, wk, pm, rt, fn, ap, pl, now, nm, lg, et, yg, h>>

TSCaptureStart ==
  /\ mounted = "TS"
  /\ ts.savePc = "countdown1"
  /\ ts' = [ts EXCEPT !.startPoseAngles = ts.latestLandmarksRef,
                      !.savePc = "countdown2"]
  /\ UNCHANGED <<mounted, ar, wk, pm, rt, fn, ap, pl, now, nm, lg, et, yg, h>>

TSCaptureEnd ==
  /\ mounted = "TS"
  /\ ts.savePc = "countdown2"
  /\ ts' = [ts EXCEPT !.endPoseAngles = ts.latestLandmarksRef,
                      !.minMax = [saved |-> TRUE, s |-> ts.startPoseAngles,
                                  e |-> ts.latestLandmarksRef],
                      !.savePc = "idle"]
  /\ h' = [h EXCEPT !.saves = @ + 1, !.frames = 0]
  /\ UNCHANGED <<mounted, ar, wk, pm, rt, fn, ap, pl, now, nm, lg, et, yg>>

TSNext ==
  \/ \E f \in TSFrames \cup {NoFrame} : TSonResults(f)
  \/ TSRunEffects
  \/ TSsaveMovement
  \/ TSCaptureStart
  \/ TSCaptureEnd

(***************************************************************************)
(* PM: the isPoseMatch version of NewMovement (part_002).  saveMovement    *)
(* computes the saved angles from canvasRef.current._poseLandmarks, which  *)
(* nothing assigns, so both saved maps are computePoseAngles([]).  The     *)
(* callback tests each saved map on its own; there is no both-saved guard. *)
(***************************************************************************)
\* (canvasRef.current as any)._poseLandmarks || []
EmptyLandmarks == [i \in LandmarkIdx |-> Undefined]

NotSaved == [saved |-> FALSE, angles |-> <<>>]

PMFrames == {1, 8}

PMInit ==
  [startPoseAngles |-> NotSaved, endPoseAngles |-> NotSaved,
   startPoseAnglesRef |-> NotSaved, endPoseAnglesRef |-> NotSaved,
   userPoseState |-> "IN_BETWEEN", userPoseStateRef |-> "IN_BETWEEN",
   repCount |-> 0, savePc |-> "idle"]

PMNewState(f) ==
  LET liveAngles == PoseAngles[f]
      matchesStart == /\ pm.startPoseAnglesRef.saved
                      /\ isPoseMatch(liveAngles, pm.startPoseAnglesRef.angles, 15)
      matchesEnd == /\ pm.endPoseAnglesRef.saved
                    /\ isPoseMatch(liveAngles, pm.endPoseAnglesRef.angles, 15)
  IN  IF matchesStart THEN "AT_START"
      ELSE IF matchesEnd THEN "AT_END" ELSE "IN_BETWEEN"

PMAfterFrame(f) ==
  IF f = NoFrame THEN pm
  ELSE
    LET newPoseState == PMNewState(f)
    IN  IF newPoseState # pm.userPoseStateRef
        THEN [pm EXCEPT
                !.repCount = IF pm.userPoseStateRef = "AT_START"
                                /\ newPoseState = "AT_END"
                             THEN @ + 1 ELSE @,
                !.userPoseState = newPoseState]
        ELSE pm

PMonResults(f) ==
  /\ mounted = "PM"
  /\ h.frames < MaxFrames
  /\ pm' = PMAfterFrame(f)
  /\ h' = [h EXCEPT !.frames = @ + 1, !.threw = FALSE]
  /\ UNCHANGED <<mounted, ar, wk, rt, fn, ap, pl, now, nm, lg, et, ts, yg>>

\* the three ref-syncing effects of the last render
PMRunEffects ==
  /\ mounted = "PM"
  /\ \/ pm.startPoseAnglesRef # pm.startPoseAngles
     \/ pm.endPoseAnglesRef # pm.endPoseAngles
     \/ pm.userPoseStateRef # pm.userPoseState
  /\ pm' = [pm EXCEPT !.startPoseAnglesRef = pm.startPoseAngles,
                      !.endPoseAnglesRef = pm.endPoseAngles,
                      !.userPoseStateRef = pm.userPoseState]
  /\ UNCHANGED <<mounted, ar, wk, rt, fn, ap, pl, now, nm, lg, et, ts, yg, h>>

\* saveMovement(delay) up to its first await
PMsaveMovement ==
  /\ mounted = "PM"
  /\ pm.savePc = "idle"
  /\ h.saves < MaxResets
  /\ pm' = [pm EXCEPT !.savePc = "countdown1"]
  /\ UNCHANGED <<mounted, ar, wk, rt, fn, ap, pl, now, nm, lg, et, ts, yg, h>>

\* the first countdown resolves: the start angles are saved
PMCaptureStart ==
  /\ mounted = "PM"
  /\ pm.savePc = "countdown1"
  /\ pm' = [pm EXCEPT
              !.startPoseAngles = [saved |-> TRUE,
                                   angles |-> computePoseAngles(EmptyLandmarks)],
              !.savePc = "countdown2"]
  /\ UNCHANGED <<mounted, ar, wk, rt, fn, ap, pl, now, nm, lg, et, ts, yg, h>>

\* the second countdown resolves: the end angles are saved
PMCaptureEnd ==
  /\ mounted = "PM"
  /\ pm.savePc = "countdown2"
  /\ pm' = [pm EXCEPT
              !.endPoseAngles = [saved |-> TRUE,
                                 angles |-> computePoseAngles(EmptyLandmarks)],
              !.savePc = "idle"]
  /\ h' = [h EXCEPT !.saves = @ + 1]
  /\ UNCHANGED <<mounted, ar, wk, rt, fn, ap, pl, now, nm, lg, et, ts, yg>>

PMNext ==
  \/ \E f \in PMFrames \cup {NoFrame} : PMonResults(f)
  \/ PMRunEffects
  \/ PMsaveMovement
  \/ PMCaptureStart
  \/ PMCaptureEnd

(***************************************************************************)
(* YG: YogaPoseMatcher, weighted match score (YogaPoseMatcher.tsx:244).    *)
(* The callback is created once, by an effect with no dependencies, so     *)
(* the smoothedError it reads is the value of the state cell at mount.     *)
(* Weights are doubled (1.5 -> 3, 1.0 -> 2) to keep them integers; errors  *)
(* are integers in units of 1/ScaleYG.                                     *)
(***************************************************************************)
jointWeights2 ==
  [rightElbow |-> 3, leftElbow |-> 3, rightShoulder |-> 2, leftShoulder |-> 2,
   rightHip |-> 2, leftHip |-> 2, rightKnee |-> 3, leftKnee |-> 3]

angleThreshold == 10
\* smoothingFactor = 0.8 weighs the old value, so the raw value weighs 1/5
alphaYG == <<1, 5>>
scoreMultiplier == 5
ScaleYG == 60 * 5 ^ MaxFrames

YGFrames == {1, 2, 5, 7, 8}
Labels == {"tree"}

YGInit ==
  [savedPose |-> NoFrame, savedPoseRef |-> NoFrame,
   currentLandmarks |-> NoFrame, currentLandmarksRef |-> NoFrame,
   latestPoseRef |-> NoFrame,
   feedback |-> <<>>, matchScore |-> 100,
   smoothedError |-> 0, closureSmoothedError |-> 0,
   currentScoreRef |-> 100,
   poseOptions |-> <<>>, closurePoseOptions |-> <<>>, allYogaPose |-> <<>>,
   poseOptionSelected |-> NoFrame, savePoseButtonDisabled |-> FALSE,
   count |-> 0, timerText |-> "", showTimer |-> FALSE]

\* the joints the comparison loop visits: those with a live angle
YGCompared(f) == {j \in JointSet : j \in DOMAIN PoseAngles[f]}

\* calculateAngle on the saved landmarks is not guarded
YGThrows(f) ==
  /\ f # NoFrame
  /\ yg.savedPoseRef # NoFrame
  /\ \E j \in YGCompared(f) :
        calculateAngleThrows(Landmarks(yg.savedPoseRef)[angleJoints[j][1]],
                             Landmarks(yg.savedPoseRef)[angleJoints[j][2]],
                             Landmarks(yg.savedPoseRef)[angleJoints[j][3]])

YGDiff(f, j) ==
  PoseAngles[f][j] -
  calculateAngle(Landmarks(yg.savedPoseRef)[angleJoints[j][1]],
                 Landmarks(yg.savedPoseRef)[angleJoints[j][2]],
                 Landmarks(yg.savedPoseRef)[angleJoints[j][3]])

RECURSIVE YGTotalError(_, _)
YGTotalError(i, f) ==
  IF i > Len(jointNames) THEN 0
  ELSE (IF jointNames[i] \in YGCompared(f)
        THEN Abs(YGDiff(f, jointNames[i])) * jointWeights2[jointNames[i]] ELSE 0)
       + YGTotalError(i + 1, f)

RECURSIVE YGTotalWeight(_, _)
YGTotalWeight(i, f) ==
  IF i > Len(jointNames) THEN 0
  ELSE (IF jointNames[i] \in YGCompared(f) THEN jointWeights2[jointNames[i]] ELSE 0)
       + YGTotalWeight(i + 1, f)

\* variant: a difference equal to the threshold already earns a hint
RECURSIVE feedbackOf_AtThreshold(_, _, _)
feedbackOf_AtThreshold(i, liveAngles, refAngles) ==
  IF i > Len(jointNames) THEN <<>>
  ELSE (IF /\ jointNames[i] \in DOMAIN liveAngles
           /\ Abs(liveAngles[jointNames[i]] - refAngles[jointNames[i]])
                >= angleThreshold
        THEN <<[joint |-> jointNames[i],
                hint |-> IF liveAngles[jointNames[i]] - refAngles[jointNames[i]] < 0
                         THEN "Increase angle" ELSE "Decrease angle"]>>
        ELSE <<>>)
       \o feedbackOf_AtThreshold(i + 1, liveAngles, refAngles)

\* newFeedback of the comparison loop, from the live angles and the
\* reference angles of the compared joints
RECURSIVE feedbackOf(_, _, _)
feedbackOf(i, liveAngles, refAngles) ==
  IF i > Len(jointNames) THEN <<>>
  ELSE (IF /\ jointNames[i] \in DOMAIN liveAngles
           /\ Abs(liveAngles[jointNames[i]] - refAngles[jointNames[i]])
                > angleThreshold
        THEN <<[joint |-> jointNames[i],
                hint |-> IF liveAngles[jointNames[i]] - refAngles[jointNames[i]] < 0
                         THEN "Increase angle" ELSE "Decrease angle"]>>
        ELSE <<>>)
       \o feedbackOf(i + 1, liveAngles, refAngles)

\* refAngle of every compared joint
YGRefAngles(f) == [j \in YGCompared(f) |-> PoseAngles[f][j] - YGDiff(f, j)]

YGFeedback(i, f) == feedbackOf(i, PoseAngles[f], YGRefAngles(f))

\* variant: a frame without joints counts as the worst error
YGAvgError_WorstCase(f) ==
  IF YGTotalWeight(1, f) > 0
  THEN (YGTotalError(1, f) * ScaleYG) \div YGTotalWeight(1, f)
  ELSE 180 * ScaleYG

YGAvgError(f) ==
  IF YGTotalWeight(1, f) > 0
  THEN (YGTotalError(1, f) * ScaleYG) \div YGTotalWeight(1, f)
  ELSE 0

\* variant: the error is blended with the last stored smoothed error
YGNewSmoothedError_Blend(f) ==
  Ema(alphaYG[1], alphaYG[2], YGAvgError(f), yg.smoothedError)

YGNewSmoothedError(f) ==
  Ema(alphaYG[1], alphaYG[2], YGAvgError(f), yg.closureSmoothedError)

\* variant: the score is not clamped at 0
scoreOf_NoClamp(smoothed) == 100 * ScaleYG - smoothed * scoreMultiplier

\* Math.max(0, 100 - newSmoothedError * 5), in units of 1/ScaleYG
scoreOf(smoothed) == Max(0, 100 * ScaleYG - smoothed * scoreMultiplier)

YGScore(f) == scoreOf(YGNewSmoothedError(f))

\* Math.round of a non-negative value in units of 1/ScaleYG
RoundYG(v) == (2 * v + ScaleYG) \div (2 * ScaleYG)

YGAfterFrame(f) ==
  IF f = NoFrame THEN yg
  ELSE
    LET seen == [yg EXCEPT !.latestPoseRef = f, !.currentLandmarks = f]
    IN  IF yg.savedPoseRef = NoFrame \/ YGThrows(f) THEN seen
        ELSE [seen EXCEPT !.smoothedError = YGNewSmoothedError(f),
                          !.currentScoreRef = RoundYG(YGScore(f)),
                          !.feedback = YGFeedback(1, f)]

YGCompares(f) == f # NoFrame /\ yg.savedPoseRef # NoFrame /\ ~YGThrows(f)

YGonResults(f) ==
  /\ mounted = "YG"
  /\ h.frames < MaxFrames
  /\ yg' = YGAfterFrame(f)
  /\ h' = IF YGCompares(f)
          THEN [h EXCEPT !.frames = @ + 1, !.threw = FALSE, !.obs = @ + 1,
                         !.rawA = YGAvgError(f), !.rawB = yg.smoothedError,
                         !.frame = f]
          ELSE [h EXCEPT !.frames = @ + 1, !.threw = YGThrows(f), !.frame = f]
  /\ UNCHANGED <<mounted, ar, wk, pm, rt, fn, ap, pl, now, nm, lg, et, ts>>

\* the passive effects of a render: the refs follow their state cells
YGRunEffects ==
  /\ mounted = "YG"
  /\ \/ yg.savedPoseRef # yg.savedPose
     \/ yg.currentLandmarksRef # yg.currentLandmarks
  /\ yg' = [yg EXCEPT !.savedPoseRef = yg.savedPose,
                      !.currentLandmarksRef = yg.currentLandmarks]
  /\ UNCHANGED <<mounted, ar, wk, pm, rt, fn, ap, pl, now, nm, lg, et, ts, h>>

\* the 200 ms interval that publishes the score
YGScoreTick ==
  /\ mounted = "YG"
  /\ yg.matchScore # yg.currentScoreRef
  /\ yg' = [yg EXCEPT !.matchScore = yg.currentScoreRef]
  /\ UNCHANGED <<mounted, ar, wk, pm, rt, fn, ap, pl, now, nm, lg, et, ts, h>>

\* variant: a cancelled prompt still replaces the reference
saveRefFrom_IgnoresCancel(item, label, options) ==
  IF item # NoFrame
  THEN [yg EXCEPT !.savedPose = item]
  ELSE yg

\* saveRef(item) as created by the render that saw poseOptions = options;
\* label is the answer to window.prompt, "" when cancelled or left empty
saveRefFrom(item, label, options) ==
  IF item # NoFrame /\ label # ""
  THEN [yg EXCEPT
          !.savedPose = item,
          !.poseOptions = Append(@, [value |-> item, label |-> label]),
          !.allYogaPose = Append(options, [value |-> item, label |-> label]),
          !.poseOptionSelected = item]
  ELSE yg

\* saveRef of the latest render, the one a click reaches
saveRef(item, label) == saveRefFrom(item, label, yg.poseOptions)

\* savePose(0): save at once
YGsavePoseNow(label) ==
  /\ mounted = "YG"
  /\ ~yg.savePoseButtonDisabled
  /\ h.saves < MaxUiOps
  /\ yg' = saveRef(yg.currentLandmarksRef, label)
  /\ h' = [h EXCEPT !.saves = @ + 1, !.uiOp = "save", !.uiArg = label,
                    !.delay = 0, !.ticks = 0,
                    !.itemAtClick = yg.currentLandmarksRef]
  /\ UNCHANGED <<mounted, ar, wk, pm, rt, fn, ap, pl, now, nm, lg, et, ts>>

\* the delays of the two countdown buttons
Countdowns == {3, 10}

\* savePose(delay) with delay > 0: start the countdown
YGsavePoseLater(delay) ==
  /\ mounted = "YG"
  /\ ~yg.savePoseButtonDisabled
  /\ h.saves < MaxUiOps
  /\ yg' = [yg EXCEPT !.savePoseButtonDisabled = TRUE, !.count = delay,
                      !.timerText = ToString(delay), !.showTimer = TRUE,
                      !.closurePoseOptions = yg.poseOptions]
  /\ h' = [h EXCEPT !.saves = @ + 1, !.uiOp = "countdown", !.uiArg = "",
                    !.delay = delay, !.ticks = 0,
                    !.itemAtClick = yg.currentLandmarksRef]
  /\ UNCHANGED <<mounted, ar, wk, pm, rt, fn, ap, pl, now, nm, lg, et, ts>>

\* variant: the countdown saves the landmarks of the click
YGAfterTick_ClickLandmarks(label) ==
  IF yg.count - 1 > 0
  THEN [yg EXCEPT !.count = @ - 1, !.timerText = ToString(yg.count - 1)]
  ELSE [saveRefFrom(h.itemAtClick, label, yg.closurePoseOptions)
          EXCEPT !.count = 0, !.timerText = "Snap!", !.showTimer = FALSE,
                 !.savePoseButtonDisabled = FALSE]

\* the body of the one-second interval callback
YGAfterTick(label) ==
  IF yg.count - 1 > 0
  THEN [yg EXCEPT !.count = @ - 1, !.timerText = ToString(yg.count - 1)]
  ELSE [saveRefFrom(yg.currentLandmarksRef, label, yg.closurePoseOptions)
          EXCEPT !.count = 0, !.timerText = "Snap!", !.showTimer = FALSE,
                 !.savePoseButtonDisabled = FALSE]

\* a tick of the countdown; the prompt is answered only at expiry
YGCountdownTick(label) ==
  /\ mounted = "YG"
  /\ yg.count > 0
  /\ yg.count > 1 => label = ""
  /\ yg' = YGAfterTick(label)
  /\ h' = IF yg.count - 1 > 0 THEN [h EXCEPT !.ticks = @ + 1]
          ELSE [h EXCEPT !.ticks = @ + 1, !.uiOp = "save", !.uiArg = label]
  /\ UNCHANGED <<mounted, ar, wk, pm, rt, fn, ap, pl, now, nm, lg, et, ts>>

\* setPoseReference(selected) from the select, enabled once a pose is selected
setPoseReference(k) ==
  /\ mounted = "YG"
  /\ yg.poseOptionSelected # NoFrame
  /\ k \in 1..Len(yg.poseOptions)
  /\ h.saves < MaxUiOps
  /\ yg' = [yg EXCEPT !.poseOptionSelected = yg.poseOptions[k].value,
                      !.savedPose = yg.poseOptions[k].value]
  /\ h' = [h EXCEPT !.saves = @ + 1, !.uiOp = "select", !.uiArg = ""]
  /\ UNCHANGED <<mounted, ar, wk, pm, rt, fn, ap, pl, now, nm, lg, et, ts>>

\* poseOptions.filter(option => option.value !== selected.value)
RECURSIVE WithoutValue(_, _)
WithoutValue(options, value) ==
  IF options = <<>> THEN <<>>
  ELSE (IF Head(options).value # value THEN <<Head(options)>> ELSE <<>>)
       \o WithoutValue(Tail(options), value)

YGAfterDelete ==
  IF Len(yg.poseOptions) = 0 THEN yg
  ELSE [yg EXCEPT
          !.poseOptions = WithoutValue(@, yg.poseOptionSelected),
          !.allYogaPose = WithoutValue(yg.poseOptions, yg.poseOptionSelected),
          !.savedPose = NoFrame,
          !.poseOptionSelected = NoFrame]

\* deletePose(poseOptionSelected) from the button, enabled with a selection
deletePose ==
  /\ mounted = "YG"
  /\ yg.poseOptionSelected # NoFrame
  /\ h.saves < MaxUiOps
  /\ yg' = YGAfterDelete
  /\ h' = [h EXCEPT !.saves = @ + 1, !.uiOp = "delete", !.uiArg = ""]
  /\ UNCHANGED <<mounted, ar, wk, pm, rt, fn, ap, pl, now, nm, lg, et, ts>>

\* the scoring over long frame sequences, with one immediate save
YGNext ==
  \/ \E f \in YGFrames \cup {NoFrame} : YGonResults(f)
  \/ YGRunEffects
  \/ YGScoreTick
  \/ \E l \in Labels \cup {""} : h.saves < MaxResets /\ YGsavePoseNow(l)

\* frames delivered while the controls are exercised
YGControlFrames == {1, 2}

\* the controls (save, countdown, select, delete) over short frame sequences
YGControlsNext ==
  \/ \E f \in YGControlFrames \cup {NoFrame} :
       h.frames < MaxSetupFrames /\ YGonResults(f)
  \/ YGRunEffects
  \/ YGScoreTick
  \/ \E l \in Labels \cup {""} : YGsavePoseNow(l)
  \/ \E d \in Countdowns : YGsavePoseLater(d)
  \/ \E l \in Labels \cup {""} : YGCountdownTick(l)
  \/ \E k \in 1..MaxUiOps : setPoseReference(k)
  \/ deletePose

\* ---- reference overlay (YogaPoseMatcher.tsx) ----

\* Math.sqrt of the squared distance; the anchor pairs used are axis-aligned,
\* so the squared distance is a perfect square
distance(a, b) ==
  LET sq == (a.x - b.x) * (a.x - b.x) + (a.y - b.y) * (a.y - b.y)
  IN  CHOOSE d \in 0..sq : d * d = sq

\* Math.cos and Math.sin of a rotation that is a multiple of a quarter turn
CosDeg(r) == CASE r % 360 = 0 -> 1 [] r % 360 = 90 -> 0
               [] r % 360 = 180 -> -1 [] r % 360 = 270 -> 0
SinDeg(r) == CASE r % 360 = 0 -> 0 [] r % 360 = 90 -> 1
               [] r % 360 = 180 -> 0 [] r % 360 = 270 -> -1

\* a coordinate num / den; den = 0 is a non-finite number (NaN when num = 0,
\* otherwise an infinity of the sign of num)
Ratio(n, d) == [num |-> n, den |-> d]
Finite(q) == q.den # 0
SameCoord(q, v) == Finite(q) /\ q.num = v * q.den

\* the map callback reads landmark.x of every saved landmark
transformLandmarksThrows(savedLandmarks) ==
  \E i \in DOMAIN savedLandmarks : ~savedLandmarks[i].ok

\* Midpoints are kept doubled and the scale currentShoulderDist /
\* savedShoulderDist is kept as a fraction, so an output coordinate is
\* (rotated2 * currentShoulderDist + currentMid2 * savedShoulderDist)
\*   / (2 * savedShoulderDist).
transformLandmarks(savedLandmarks, savedLeft, savedRight, currentLeft, currentRight) ==
  LET savedMid2 == [x |-> savedLeft.x + savedRight.x, y |-> savedLeft.y + savedRight.y]
      currentMid2 == [x |-> currentLeft.x + currentRight.x,
                      y |-> currentLeft.y + currentRight.y]
      savedShoulderDist == distance(savedLeft, savedRight)
      currentShoulderDist == distance(currentLeft, currentRight)
      savedAngle == Atan2Deg(savedRight.y - savedLeft.y, savedRight.x - savedLeft.x)
      currentAngle == Atan2Deg(currentRight.y - currentLeft.y,
                               currentRight.x - currentLeft.x)
      rotation == currentAngle - savedAngle
      moved(landmark) ==
        LET dx2 == 2 * landmark.x - savedMid2.x
            dy2 == 2 * landmark.y - savedMid2.y
            rotatedX2 == dx2 * CosDeg(rotation) - dy2 * SinDeg(rotation)
            rotatedY2 == dx2 * SinDeg(rotation) + dy2 * CosDeg(rotation)
        IN  [landmark EXCEPT
               !.x = Ratio(rotatedX2 * currentShoulderDist
                             + currentMid2.x * savedShoulderDist,
                           2 * savedShoulderDist),
               !.y = Ratio(rotatedY2 * currentShoulderDist
                             + currentMid2.y * savedShoulderDist,
                           2 * savedShoulderDist)]
  IN  [i \in DOMAIN savedLandmarks |-> moved(savedLandmarks[i])]

\* variant: the callback writes x and y, truncated to whole units, into the
\* saved landmark itself
argumentsAfterTransform_InPlace(savedLandmarks, savedLeft, savedRight, currentLeft, currentRight) ==
  LET moved == transformLandmarks(savedLandmarks, savedLeft, savedRight,
                                  currentLeft, currentRight)
      whole(q) == IF q.den = 0 THEN 0 ELSE q.num \div q.den
      written == [i \in DOMAIN savedLandmarks |->
                    [savedLandmarks[i] EXCEPT !.x = whole(moved[i].x),
                                              !.y = whole(moved[i].y)]]
  IN  [savedLandmarks |-> written, savedLeft |-> written[11],
       savedRight |-> written[12],
       currentLeft |-> currentLeft, currentRight |-> currentRight]

\* the arguments as the call leaves them: the map callback spreads each
\* landmark into a fresh object and assigns to no argument
argumentsAfterTransform(savedLandmarks, savedLeft, savedRight, currentLeft, currentRight) ==
  [savedLandmarks |-> savedLandmarks, savedLeft |-> savedLeft,
   savedRight |-> savedRight,
   currentLeft |-> currentLeft, currentRight |-> currentRight]

\* nothing was drawn
NoReference ==
  [i \in LandmarkIdx |-> [ok |-> TRUE, x |-> Ratio(0, 1), y |-> Ratio(0, 1)]]

\* the overlay block of onResults: applied says that transformLandmarks was
\* called, drawn that transformedReference reached the canvas
overlay(savedPose, poseLandmarks) ==
  LET savedLandmarks == savedPose.landmarks
      savedLeft == savedLandmarks[11]
      savedRight == savedLandmarks[12]
      currentLeft == poseLandmarks[11]
      currentRight == poseLandmarks[12]
  IN  IF /\ savedPose.present
         /\ savedLeft.ok /\ savedRight.ok /\ currentLeft.ok /\ currentRight.ok
      THEN IF transformLandmarksThrows(savedLandmarks)
           THEN [applied |-> TRUE, drawn |-> FALSE, reference |-> NoReference]
           ELSE [applied |-> TRUE, drawn |-> TRUE,
                 reference |-> transformLandmarks(savedLandmarks, savedLeft,
                                 savedRight, currentLeft, currentRight)]
      ELSE [applied |-> FALSE, drawn |-> FALSE, reference |-> NoReference]

(***************************************************************************)
(* FN: the module-level functions applied on their own.  fn holds the last *)
(* call: the function's name, its arguments and what it returned; each run *)
(* makes one call.                                                         *)
(***************************************************************************)
FnIdle == [op |-> "none", arg |-> <<>>, out |-> 0]

\* the compass neighbours of a point, and the point itself
Offsets == {<<dx, dy>> : dx \in {-1, 0, 1}, dy \in {-1, 0, 1}}
Vertices == {Pt(0, 0), Pt(3, -2)}

FnCalculateAngle ==
  /\ mounted = "FN" /\ fn.op = "none"
  /\ \E B \in Vertices, a \in Offsets, c \in Offsets :
       LET A == Pt(B.x + a[1], B.y + a[2])
           C == Pt(B.x + c[1], B.y + c[2])
       IN  fn' = [op |-> "calculateAngle", arg |-> <<A, B, C>>,
                  out |-> calculateAngle(A, B, C)]
  /\ UNCHANGED <<mounted, ar, wk, pm, rt, ap, pl, now, nm, lg, et, ts, yg, h>>

\* calculateAngle called with its outer points in both orders
FnCalculateAngleBothWays ==
  /\ mounted = "FN" /\ fn.op = "none"
  /\ \E B \in Vertices, a \in Offsets, c \in Offsets :
       LET A == Pt(B.x + a[1], B.y + a[2])
           C == Pt(B.x + c[1], B.y + c[2])
       IN  fn' = [op |-> "calculateAngleBothWays", arg |-> <<A, B, C>>,
                  out |-> <<calculateAngle(A, B, C), calculateAngle(C, B, A)>>]
  /\ UNCHANGED <<mounted, ar, wk, pm, rt, ap, pl, now, nm, lg, et, ts, yg, h>>

\* a library frame with any set of its landmarks not delivered
Occluded(f, missing) ==
  [i \in LandmarkIdx |-> IF i \in missing THEN Undefined ELSE Landmarks(f)[i]]

FnBaseFrames == {1, 2}

FnComputePoseAngles ==
  /\ mounted = "FN" /\ fn.op = "none"
  /\ \E f \in FnBaseFrames, missing \in SUBSET LandmarkIdx :
       fn' = [op |-> "computePoseAngles", arg |-> Occluded(f, missing),
              out |-> computePoseAngles(Occluded(f, missing))]
  /\ UNCHANGED <<mounted, ar, wk, pm, rt, ap, pl, now, nm, lg, et, ts, yg, h>>

\* angle maps: the angles of a library frame, one joint moved by a few
\* degrees, at most one key missing
Without(angles, missing) == [j \in DOMAIN angles \ missing |-> angles[j]]
Moved(angles, j, d) == [angles EXCEPT ![j] = @ + d]
AtMostOne == {{}} \cup {{j} : j \in JointSet}
Deltas == {-11, -10, -1, 0, 1, 10, 11, 15, 16}
Tolerances == {0, 10, 15}

FnIsNearPose ==
  /\ mounted = "FN" /\ fn.op = "none"
  /\ \E f \in FnBaseFrames, j \in JointSet, d \in Deltas,
        ml \in AtMostOne, mt \in AtMostOne, tolerance \in Tolerances :
       LET liveAngles == Without(Moved(PoseAngles[f], j, d), ml)
           targetAngles == Without(PoseAngles[f], mt)
       IN  fn' = [op |-> "isNearPose",
                  arg |-> [live |-> liveAngles, ref |-> targetAngles,
                           tolerance |-> tolerance],
                  out |-> isNearPose(liveAngles, targetAngles, tolerance)]
  /\ UNCHANGED <<mounted, ar, wk, pm, rt, ap, pl, now, nm, lg, et, ts, yg, h>>

FnIsPoseMatch ==
  /\ mounted = "FN" /\ fn.op = "none"
  /\ \E f \in FnBaseFrames, j \in JointSet, d \in Deltas,
        ml \in AtMostOne, mt \in AtMostOne, threshold \in Tolerances :
       LET liveAngles == Without(Moved(PoseAngles[f], j, d), ml)
           refAngles == Without(PoseAngles[f], mt)
       IN  fn' = [op |-> "isPoseMatch",
                  arg |-> [live |-> liveAngles, ref |-> refAngles,
                           tolerance |-> threshold],
                  out |-> isPoseMatch(liveAngles, refAngles, threshold)]
  /\ UNCHANGED <<mounted, ar, wk, pm, rt, ap, pl, now, nm, lg, et, ts, yg, h>>

\* angleDistance called both ways round on a pair of angle maps
FnAngleDistance ==
  /\ mounted = "FN" /\ fn.op = "none"
  /\ \E f \in FnBaseFrames, g \in FnBaseFrames, j \in JointSet, d \in Deltas,
        ml \in AtMostOne, mr \in AtMostOne :
       LET liveAngles == Without(Moved(PoseAngles[f], j, d), ml)
           referenceAngles == Without(PoseAngles[g], mr)
       IN  fn' = [op |-> "angleDistance",
                  arg |-> [live |-> liveAngles, ref |-> referenceAngles],
                  out |-> <<angleDistance(liveAngles, referenceAngles),
                            angleDistance(referenceAngles, liveAngles)>>]
  /\ UNCHANGED <<mounted, ar, wk, pm, rt, ap, pl, now, nm, lg, et, ts, yg, h>>

\* frames whose joints differ from one another in both directions
FnLoopFrames == {1, 2, 6}

\* the comparison loop of the pose matcher on a live and a reference angle
\* map; the reference has an angle for every joint
FnFeedback ==
  /\ mounted = "FN" /\ fn.op = "none"
  /\ \E f \in FnLoopFrames, g \in FnLoopFrames, j \in JointSet, d \in Deltas,
        ml \in AtMostOne :
       LET liveAngles == Without(Moved(PoseAngles[f], j, d), ml)
           refAngles == PoseAngles[g]
       IN  fn' = [op |-> "feedback",
                  arg |-> [live |-> liveAngles, ref |-> refAngles],
                  out |-> feedbackOf(1, liveAngles, refAngles)]
  /\ UNCHANGED <<mounted, ar, wk, pm, rt, ap, pl, now, nm, lg, et, ts, yg, h>>

\* shoulder pairs <<left, right>>: as drawn by Body, shifted, widened, turned
\* a quarter and a half turn, and coincident
AnchorPairs ==
  {<<Pt(2, 0), Pt(-2, 0)>>, <<Pt(3, 1), Pt(-1, 1)>>, <<Pt(4, 0), Pt(-4, 0)>>,
   <<Pt(0, 2), Pt(0, -2)>>, <<Pt(-2, 0), Pt(2, 0)>>, <<Pt(1, 1), Pt(1, 1)>>}

\* shoulder pairs with one or both shoulders not delivered
OccludedPairs ==
  {<<Undefined, Pt(-2, 0)>>, <<Pt(2, 0), Undefined>>, <<Undefined, Undefined>>}

WithAnchors(f, pair) == [Landmarks(f) EXCEPT ![11] = pair[1], ![12] = pair[2]]

FnTransformLandmarks ==
  /\ mounted = "FN" /\ fn.op = "none"
  /\ \E f \in FnLoopFrames, sp \in AnchorPairs, cp \in AnchorPairs :
       LET savedLandmarks == WithAnchors(f, sp)
       IN  fn' = [op |-> "transformLandmarks",
                  arg |-> [savedLandmarks |-> savedLandmarks,
                           savedLeft |-> sp[1], savedRight |-> sp[2],
                           currentLeft |-> cp[1], currentRight |-> cp[2]],
                  out |-> transformLandmarks(savedLandmarks, sp[1], sp[2],
                                             cp[1], cp[2])]
  /\ UNCHANGED <<mounted, ar, wk, pm, rt, ap, pl, now, nm, lg, et, ts, yg, h>>

\* landmarks as the estimator delivers them, with depth and visibility
Detailed(landmarks) ==
  [i \in DOMAIN landmarks |->
     [ok |-> landmarks[i].ok, x |-> landmarks[i].x, y |-> landmarks[i].y,
      z |-> i - 20, visibility |-> i % 3]]

\* transformLandmarks on detailed landmarks: its result and its arguments
\* after the call
FnTransformEffect ==
  /\ mounted = "FN" /\ fn.op = "none"
  /\ \E f \in FnLoopFrames, sp \in AnchorPairs, cp \in AnchorPairs :
       LET savedLandmarks == Detailed(WithAnchors(f, sp))
           current == Detailed(WithAnchors(f, cp))
       IN  fn' = [op |-> "transformEffect",
                  arg |-> [savedLandmarks |-> savedLandmarks,
                           savedLeft |-> savedLandmarks[11],
                           savedRight |-> savedLandmarks[12],
                           currentLeft |-> current[11],
                           currentRight |-> current[12]],
                  out |-> [returned |->
                             transformLandmarks(savedLandmarks, savedLandmarks[11],
                               savedLandmarks[12], current[11], current[12]),
                           after |->
                             argumentsAfterTransform(savedLandmarks,
                               savedLandmarks[11], savedLandmarks[12],
                               current[11], current[12])]]
  /\ UNCHANGED <<mounted, ar, wk, pm, rt, ap, pl, now, nm, lg, et, ts, yg, h>>

\* saved frames of the overlay: full bodies and one without its left knee
FnSavedFrames == {1, 5, 6}

\* the overlay block on a frame, with or without a saved pose
FnOverlay ==
  /\ mounted = "FN" /\ fn.op = "none"
  /\ \E f \in FnSavedFrames, g \in FnBaseFrames, present \in BOOLEAN,
        sp \in AnchorPairs \cup OccludedPairs,
        cp \in AnchorPairs \cup OccludedPairs :
       LET savedPose == [present |-> present, landmarks |-> WithAnchors(f, sp)]
           poseLandmarks == WithAnchors(g, cp)
       IN  fn' = [op |-> "overlay",
                  arg |-> [savedPose |-> savedPose, poseLandmarks |-> poseLandmarks],
                  out |-> overlay(savedPose, poseLandmarks)]
  /\ UNCHANGED <<mounted, ar, wk, pm, rt, ap, pl, now, nm, lg, et, ts, yg, h>>

FNNext ==
  \/ FnTransformEffect
  \/ FnCalculateAngleBothWays
  \/ FnTransformLandmarks
  \/ FnOverlay
  \/ FnFeedback
  \/ FnAngleDistance
  \/ FnCalculateAngle
  \/ FnComputePoseAngles
  \/ FnIsNearPose
  \/ FnIsPoseMatch

(***************************************************************************)
(* AudioRecorder (gemini/audio).  "REC" is recorder.js, with the mic        *)
(* suspension calls and audioContext.close() in stop(); "AREC" is           *)
(* audio-recorder.js, which has neither.  start, suspendMic and resumeMic   *)
(* are async: each await is a point where other calls and port messages     *)
(* interleave.  ops, op, msgs, calls and last are history: the calls made,  *)
(* the port messages handled, the onAudioData invocations, and which of a   *)
(* completed start and an effective stop came last.                         *)
(***************************************************************************)
RecorderPages == {"REC", "AREC"}

ARInit ==
  [stream |-> "null", audioContext |-> "null", processor |-> "null",
   onAudioData |-> "null", isRecording |-> FALSE, isSuspended |-> FALSE,
   startPc |-> "idle", micPc |-> "idle", contexts |-> 0, micContext |-> 0,
   ops |-> 0, op |-> "-", msgs |-> 0, calls |-> 0, last |-> "-"]

ARCalled(name) == [ar EXCEPT !.ops = @ + 1, !.op = name]

\* start(onAudioData) up to await getUserMedia
ARstart ==
  /\ mounted \in RecorderPages
  /\ ar.ops < MaxCalls
  /\ ar.startPc = "idle"
  /\ ar' = [ARCalled("start") EXCEPT !.onAudioData = "callback",
                                     !.startPc = "getUserMedia"]
  /\ UNCHANGED <<mounted, wk, pm, rt, fn, ap, pl, now, nm, lg, et, ts, yg, h>>

\* getUserMedia settles; on success the context and the source are created
\* and start awaits initializeAudioWorklet
ARgotStream(granted) ==
  /\ mounted \in RecorderPages
  /\ ar.startPc = "getUserMedia"
  /\ ar' = IF granted
           THEN [ar EXCEPT !.stream = "live", !.audioContext = "running",
                           !.contexts = @ + 1, !.startPc = "addModule"]
           ELSE [ar EXCEPT !.startPc = "idle"]
  /\ UNCHANGED <<mounted, wk, pm, rt, fn, ap, pl, now, nm, lg, et, ts, yg, h>>

\* variant: the handler is installed but recording is not switched on
ARAfterSetup_NeverRecording(loaded) ==
  IF loaded
  THEN [ar EXCEPT !.processor = "node", !.startPc = "idle"]
  ELSE [ar EXCEPT !.startPc = "idle"]

\* the rest of start: the node is created, port.onmessage installed, the
\* nodes connected; an unregistered processor makes the constructor throw
ARAfterSetup(loaded) ==
  IF loaded
  THEN [ar EXCEPT !.processor = "node", !.isRecording = TRUE,
                  !.startPc = "idle", !.last = "started"]
  ELSE [ar EXCEPT !.startPc = "idle"]

ARworkletLoaded(loaded) ==
  /\ mounted \in RecorderPages
  /\ ar.startPc = "addModule"
  /\ ar' = ARAfterSetup(loaded)
  /\ UNCHANGED <<mounted, wk, pm, rt, fn, ap, pl, now, nm, lg, et, ts, yg, h>>

\* variant: stop also clears the suspension mark
ARAfterStop_ClearsSuspended ==
  IF ~ar.isRecording THEN ar
  ELSE [ar EXCEPT
          !.stream = "null",
          !.isRecording = FALSE,
          !.isSuspended = FALSE,
          !.audioContext = IF mounted = "REC" /\ @ # "null" THEN "closed" ELSE @,
          !.last = "stopped"]

ARAfterStop ==
  IF ~ar.isRecording THEN ar
  ELSE [ar EXCEPT
          !.stream = "null",
          !.isRecording = FALSE,
          !.audioContext = IF mounted = "REC" /\ @ # "null" THEN "closed" ELSE @,
          !.last = "stopped"]

ARstop ==
  /\ mounted \in RecorderPages
  /\ ar.ops < MaxCalls
  /\ ar' = [ARAfterStop EXCEPT !.ops = @ + 1, !.op = "stop"]
  /\ UNCHANGED <<mounted, wk, pm, rt, fn, ap, pl, now, nm, lg, et, ts, yg, h>>

\* suspendMic() up to await audioContext.suspend()
suspendMic(name) ==
  /\ mounted = "REC"
  /\ ar.ops < MaxCalls
  /\ ar.micPc = "idle"
  /\ ar' = IF ~ar.isRecording \/ ar.isSuspended
           THEN ARCalled(name)
           ELSE [ARCalled(name) EXCEPT !.micPc = "suspending",
                                       !.micContext = ar.contexts]
  /\ UNCHANGED <<mounted, wk, pm, rt, fn, ap, pl, now, nm, lg, et, ts, yg, h>>

\* resumeMic() up to await audioContext.resume()
resumeMic(name) ==
  /\ mounted = "REC"
  /\ ar.ops < MaxCalls
  /\ ar.micPc = "idle"
  /\ ar' = IF ~ar.isRecording \/ ~ar.isSuspended
           THEN ARCalled(name)
           ELSE [ARCalled(name) EXCEPT !.micPc = "resuming",
                                       !.micContext = ar.contexts]
  /\ UNCHANGED <<mounted, wk, pm, rt, fn, ap, pl, now, nm, lg, et, ts, yg, h>>

toggleMic ==
  IF ar.isSuspended THEN resumeMic("toggleMic") ELSE suspendMic("toggleMic")

\* the context the pending call awaits is still the recorder's and is open
ARMicContextOpen ==
  ar.micContext = ar.contexts /\ ar.audioContext \in {"running", "suspended"}

\* the awaited promise settles.  On a context closed or replaced since the
\* call it may reject or resolve; the continuation then reads this.stream,
\* which throws when stop() has cleared it
ARmicSettled(resolved) ==
  /\ mounted = "REC"
  /\ ar.micPc \in {"suspending", "resuming"}
  /\ ARMicContextOpen => resolved
  /\ ar' = IF resolved /\ ar.stream # "null"
           THEN [ar EXCEPT
                   !.isSuspended = (ar.micPc = "suspending"),
                   !.audioContext =
                      IF ARMicContextOpen
                      THEN (IF ar.micPc = "suspending" THEN "suspended"
                            ELSE "running")
                      ELSE @,
                   !.micPc = "idle"]
           ELSE [ar EXCEPT !.micPc = "idle"]
  /\ UNCHANGED <<mounted, wk, pm, rt, fn, ap, pl, now, nm, lg, et, ts, yg, h>>

PortEvents == {"chunk", "error"}

\* variant: every chunk message is forwarded
ARAfterMessage_Unguarded(event) ==
  IF event = "chunk" /\ ar.onAudioData # "null"
  THEN [ar EXCEPT !.msgs = @ + 1, !.calls = @ + 1]
  ELSE [ar EXCEPT !.msgs = @ + 1]

\* processor.port.onmessage
ARAfterMessage(event) ==
  IF ar.isRecording /\ event = "chunk" /\ ar.onAudioData # "null"
  THEN [ar EXCEPT !.msgs = @ + 1, !.calls = @ + 1]
  ELSE [ar EXCEPT !.msgs = @ + 1]

\* a message of a worklet node reaches the handler start installed
ARonmessage(event) ==
  /\ mounted \in RecorderPages
  /\ ar.processor # "null"
  /\ ar.msgs < MaxMessages
  /\ ar' = ARAfterMessage(event)
  /\ UNCHANGED <<mounted, wk, pm, rt, fn, ap, pl, now, nm, lg, et, ts, yg, h>>

ARNext ==
  \/ ARstart
  \/ \E granted \in BOOLEAN : ARgotStream(granted)
  \/ \E loaded \in BOOLEAN : ARworkletLoaded(loaded)
  \/ ARstop
  \/ suspendMic("suspendMic")
  \/ resumeMic("resumeMic")
  \/ toggleMic
  \/ \E resolved \in BOOLEAN : ARmicSettled(resolved)
  \/ \E event \in PortEvents : ARonmessage(event)

(***************************************************************************)
(* AudioProcessingWorklet (the processor both recorder files register).    *)
(* A Float32 sample is an integer count of SampleUnit-ths, so              *)
(* float32Array[i] * 32768 is a count of halves and its floor is exact.     *)
(* posted is the port's outgoing queue;                                     *)
(* consumed and start are history: the samples handed to processChunk so    *)
(* far, and where in SamplePattern the input stream began.                  *)
(***************************************************************************)
BufferLength == 2048
SampleUnit == 65536

\* no processor constructed yet
WKNone ==
  [buffer |-> <<>>, bufferWriteIndex |-> 0, posted |-> <<>>, errors |-> 0,
   consumed |-> 0, start |-> 0]

\* one period of the input signal: below -1, -1, odd negative, 0, a
\* fraction, the largest value below 1, 1, above 1
SamplePattern == <<-131072, -65536, -32769, 0, 21845, 65535, 65536, 98304, -1>>

\* sample number pos (from 0) of the stream that began at offset start
SampleAt(start, pos) == SamplePattern[((start + pos) % Len(SamplePattern)) + 1]

\* the Float32Array of length len that follows the samples consumed so far
InputBlock(len) == [i \in 1..len |-> SampleAt(wk.start, wk.consumed + i - 1)]

\* Math.max(-32768, Math.min(32767, Math.floor(sample * 32768)))
toInt16(sample) ==
  Max(-32768, Min(32767, sample \div (SampleUnit \div 32768)))

\* this.buffer.slice(0, this.bufferWriteIndex)
slice(buffer, end) == SubSeq(buffer, 1, Min(end, Len(buffer)))

sendAndClearBuffer(w) ==
  [w EXCEPT !.posted = Append(@, slice(w.buffer, w.bufferWriteIndex)),
            !.bufferWriteIndex = 0]

\* this.buffer[this.bufferWriteIndex++] = int16Value; a typed array ignores
\* a write past its end
WKWritten(w, int16Value) ==
  [w EXCEPT !.buffer = IF w.bufferWriteIndex < Len(@)
                       THEN [@ EXCEPT ![w.bufferWriteIndex + 1] = int16Value]
                       ELSE @,
            !.bufferWriteIndex = @ + 1]

WKFlushed(w) ==
  IF w.bufferWriteIndex >= Len(w.buffer) THEN sendAndClearBuffer(w) ELSE w

\* variant: the buffer is sent only by the test after the loop
RECURSIVE processChunkFrom_FlushAfterLoop(_, _, _, _)
processChunkFrom_FlushAfterLoop(lo, hi, float32Array, w) ==
  IF lo > hi THEN w
  ELSE IF lo = hi
  THEN WKWritten(w, toInt16(float32Array[lo]))
  ELSE CHOOSE after \in
         {processChunkFrom_FlushAfterLoop(((lo + hi) \div 2) + 1, hi, float32Array, half) :
            half \in {processChunkFrom_FlushAfterLoop(lo, (lo + hi) \div 2, float32Array, w)}} : TRUE

\* the iterations lo - 1 .. hi - 1 of the for loop of processChunk, in
\* order: the first half of the range, then the second half on its result
\* (a value before the second half starts)
RECURSIVE processChunkFrom(_, _, _, _)
processChunkFrom(lo, hi, float32Array, w) ==
  IF lo > hi THEN w
  ELSE IF lo = hi
  THEN WKFlushed(WKWritten(w, toInt16(float32Array[lo])))
  ELSE CHOOSE after \in
         {processChunkFrom(((lo + hi) \div 2) + 1, hi, float32Array, half) :
            half \in {processChunkFrom(lo, (lo + hi) \div 2, float32Array, w)}} : TRUE

processChunk(float32Array, w) ==
  WKFlushed(processChunkFrom(1, Len(float32Array), float32Array, w))

\* new AudioWorkletNode(...) runs the processor's constructor
WKconstructor(start) ==
  /\ mounted = "WK"
  /\ wk = WKNone
  /\ wk' = [WKNone EXCEPT !.buffer = [i \in 1..BufferLength |-> 0],
                          !.start = start]
  /\ UNCHANGED <<mounted, ar, pm, rt, fn, ap, pl, now, nm, lg, et, ts, yg, h>>

\* the render quantum, and block lengths that do not divide the buffer
BlockLengths == {128, 1000}

\* process(inputs): channels is inputs[0].length, len the length of channel 0
process(channels, len) ==
  /\ mounted = "WK"
  /\ wk # WKNone
  /\ wk.consumed + len <= MaxSamples
  /\ wk' = IF channels = 0 THEN wk
           ELSE [processChunk(InputBlock(len), wk) EXCEPT !.consumed = @ + len]
  /\ UNCHANGED <<mounted, ar, pm, rt, fn, ap, pl, now, nm, lg, et, ts, yg, h>>

WKNext ==
  \/ \E start \in 0..(Len(SamplePattern) - 1) : WKconstructor(start)
  \/ \E channels \in {0, 1}, len \in BlockLengths : process(channels, len)


(***************************************************************************)
(* Specifications.                                                         *)
(***************************************************************************)
Pages == {"NM", "LG", "ET", "TS", "YG", "AP", "PL", "RT", "PM", "REC", "AREC",
          "WK"}

\* every component as constructed, no function called yet
Fresh ==
  /\ now = 0
  /\ nm = NMInit
  /\ lg = LGInit
  /\ et = ETInit
  /\ ts = TSInit
  /\ yg = YGInit
  /\ ap = APInit
  /\ pl = PLInit
  /\ rt = RTInit
  /\ pm = PMInit
  /\ ar = ARInit
  /\ wk = WKNone
  /\ h = HInit
  /\ fn = FnIdle

Init ==
  /\ mounted \in Pages
  /\ Fresh

Next == NMNext \/ LGNext \/ ETNext \/ TSNext \/ YGNext \/ APNext \/ PLNext \/ RTNext
        \/ PMNext \/ ARNext \/ WKNext

Spec == Init /\ [][Next]_vars

InitNM == Init /\ mounted = "NM"

NMSpec == InitNM /\ [][NMNext]_vars

InitLG == Init /\ mounted = "LG"

LGSpec == InitLG /\ [][LGNext]_vars

InitET == Init /\ mounted = "ET"

ETSpec == InitET /\ [][ETNext]_vars

InitTS == Init /\ mounted = "TS"

TSSpec == InitTS /\ [][TSNext]_vars

InitYG == Init /\ mounted = "YG"

YGSpec == InitYG /\ [][YGNext]_vars

YGControlsSpec == InitYG /\ [][YGControlsNext]_vars

InitAP == Init /\ mounted = "AP"

APSpec == InitAP /\ [][APNext]_vars

InitPL == Init /\ mounted = "PL"

PLSpec == InitPL /\ [][PLNext]_vars

\* the machines with one committed up/down phase and two thresholds
ThresholdPages == {"LG", "RT", "AP"}

InitThreshold == Init /\ mounted \in ThresholdPages

ThresholdNext == LGNext \/ RTNext \/ APNext

ThresholdSpec == InitThreshold /\ [][ThresholdNext]_vars

\* the variants that count between a saved start and a saved end pose
SavedPairPages == {"TS", "PM"}

InitSavedPair == Init /\ mounted \in SavedPairPages

SavedPairNext == TSNext \/ PMNext

SavedPairSpec == InitSavedPair /\ [][SavedPairNext]_vars

InitAR == Init /\ mounted \in RecorderPages

ARSpec == InitAR /\ [][ARNext]_vars

InitWK == Init /\ mounted = "WK"

WKSpec == InitWK /\ [][WKNext]_vars

\* no page mounted: the functions are called directly
InitFN == mounted = "FN" /\ Fresh

FNSpec == InitFN /\ [][FNNext]_vars

(***************************************************************************)
(* Properties.                                                             *)
(***************************************************************************)
\* the repetition counter of the mounted page
Rep ==
  CASE mounted = "NM" -> nm.repCount
    [] mounted = "LG" -> lg.repCount
    [] mounted = "ET" -> et.repCount
    [] mounted = "TS" -> ts.repCount
    [] mounted = "AP" -> ap.squatCountRef
    [] mounted = "PL" -> pl.repCount
    [] mounted = "RT" -> rt.repCount
    [] mounted = "PM" -> pm.repCount
    [] OTHER -> 0

FrameStep == h'.frames = h.frames + 1
ResetStep == h'.resets = h.resets + 1

\* C1: a frame callback never lowers the repetition counter; the counter
\* gets smaller only in an explicit reset, and every reset leaves it at 0.
C1_CounterMonotone ==
  [][/\ FrameStep => Rep' >= Rep
     /\ Rep' < Rep => ResetStep
     /\ ResetStep => Rep' = 0]_vars

\* a reset has taken a positive count back to 0
C1_Witness == h.resets > 0 /\ h.repAtReset > 0 /\ Rep = 0

C3_ShortRunCommitsNothing ==
  /\ (h.cand # "-" /\ h.lastT - h.runStart < BUFFER_MS) => h.runCommits = 0
  /\ (/\ h.prev.cand # "-" /\ h.prev.span < BUFFER_MS
      /\ h.prev.cand # h.prev.phase0 /\ h.cand = h.prev.phase0)
       => /\ h.prev.commits = 0 /\ h.runCommits = 0
          /\ nm.phaseRef = h.prev.phase0 /\ nm.repCount = h.prev.rep0
  /\ h.cand # "-" => nm.pendingPhaseRef = h.cand
  /\ (h.cand # "-" /\ (h.prev.cand # "-" \/ h.cand # "none"))
       => nm.timeEnteredCandidateRef = h.runStart

\* 'up' was the candidate for less than 100 ms while 'down' was committed, then reverted
C3_Witness ==
  /\ h.prev.cand = "up" /\ h.prev.phase0 = "down" /\ h.prev.span < BUFFER_MS
  /\ h.cand = "down" /\ nm.phaseRef = "down"

\* C4: a frame changes the committed phase only if its candidate is the
\* pending candidate stored by an earlier frame, at least 100 ms have passed
\* since the candidate-since timestamp, and the candidate differs from the
\* committed phase; so no commit comes less than 100 ms after the candidate
\* was first seen.
C4_CommitNeedsStableCandidate ==
  [][(FrameStep /\ nm'.phaseRef # nm.phaseRef)
       => /\ h'.cand = nm.pendingPhaseRef
          /\ h'.cand = h.cand
          /\ now' - nm.timeEnteredCandidateRef >= BUFFER_MS
          /\ h'.cand # nm.phaseRef
          /\ nm'.phaseRef = h'.cand
          /\ now' - h'.runStart >= BUFFER_MS]_vars

\* a commit to 'down' has happened
C4_Witness == h.cand = "down" /\ h.runCommits = 1 /\ nm.phaseRef = "down"

\* C5: a frame whose candidate differs from the stored pending candidate
\* stores the candidate and the current time and leaves the committed phase
\* and the repetition counter as they were.
C5_ChangedCandidateOnlyRearms ==
  [][(FrameStep /\ h'.obs = h.obs + 1 /\ h'.cand # nm.pendingPhaseRef)
       => /\ nm'.pendingPhaseRef = h'.cand
          /\ nm'.timeEnteredCandidateRef = now'
          /\ nm'.phaseRef = nm.phaseRef
          /\ nm'.repCount = nm.repCount]_vars

\* the last frame changed the candidate more than 100 ms after the previous
\* candidate was stored, and the new candidate is not the committed phase
C5_Witness ==
  /\ h.prev.cand # "-" /\ h.lastT = h.runStart
  /\ nm.timeEnteredCandidateRef = h.lastT
  /\ h.cand # nm.phaseRef /\ h.cand = "up"
  /\ h.prev.span >= BUFFER_MS

\* the completion edge of the committed phase: the ref that setPhase writes
\* together with the state in the hysteresis machine, the userPoseState cell
\* in the three-state variant
CompletionEdge ==
  \/ mounted = "NM" /\ nm.phaseRef = "down" /\ nm'.phaseRef = "up"
  \/ mounted = "TS" /\ ts.userPoseState = "AT_START" /\ ts'.userPoseState = "AT_END"

\* C6: a frame adds exactly 1 to the repetition counter if and only if it
\* commits the completion edge (down to up; AT_START to AT_END); any other
\* frame leaves the counter as it was.
C6_CreditIffCompletionEdge ==
  [][FrameStep => /\ CompletionEdge => Rep' = Rep + 1
                  /\ ~CompletionEdge => Rep' = Rep]_vars

\* C7: after the first observation v since creation or since a reset, every
\* smoother holds v.
C7_FirstObservationSeeds ==
  h.obs = 1 =>
    CASE mounted = "NM" -> /\ nm.smoothedDistToStartRef = h.rawA * ScaleNM
                           /\ nm.smoothedDistToEndRef = h.rawB * ScaleNM
      [] mounted = "LG" -> /\ lg.leftAngleSmoothingRef = h.rawA * ScaleLimb
                           /\ lg.rightAngleSmoothingRef = h.rawB * ScaleLimb
      [] mounted = "YG" -> yg.smoothedError = h.rawA
      [] OTHER -> TRUE

\* C8: on every frame after the first, each smoother's new value blends the
\* raw value with the smoothed value the preceding frame produced; so does
\* the weighted match error of the pose matcher.
C8_BlendsWithPreviousFrame ==
  [][(FrameStep /\ h'.obs = h.obs + 1 /\ h.obs >= 1) =>
       CASE mounted = "NM" ->
              /\ nm'.smoothedDistToStartRef =
                   Ema(alphaNM[1], alphaNM[2], h'.rawA * ScaleNM,
                       nm.smoothedDistToStartRef)
              /\ nm'.smoothedDistToEndRef =
                   Ema(alphaNM[1], alphaNM[2], h'.rawB * ScaleNM,
                       nm.smoothedDistToEndRef)
         [] mounted = "LG" ->
              /\ lg'.leftAngleSmoothingRef =
                   Ema(alphaLimb[1], alphaLimb[2], h'.rawA * ScaleLimb,
                       lg.leftAngleSmoothingRef)
              /\ lg'.rightAngleSmoothingRef =
                   Ema(alphaLimb[1], alphaLimb[2], h'.rawB * ScaleLimb,
                       lg.rightAngleSmoothingRef)
         [] mounted = "YG" ->
              yg'.smoothedError =
                Ema(alphaYG[1], alphaYG[2], h'.rawA, yg.smoothedError)
         [] OTHER -> TRUE]_vars

\* C9: after a session reset every smoother is back in its initial state,
\* and the first observation after the reset is taken as it is in
\* ExerciseTracker, where a fresh smoother is seeded with the raw value.
C9_ResetClearsSmoothers ==
  /\ (h.resets > 0 /\ h.obs = 0) =>
       CASE mounted = "ET" -> /\ et.leftAngleSmoothingRef = Null
                              /\ et.rightAngleSmoothingRef = Null
         [] mounted = "NM" -> /\ nm.smoothedDistToStartRef = 0
                              /\ nm.smoothedDistToEndRef = 0
         [] OTHER -> TRUE
  /\ (h.resets > 0 /\ h.obs = 1 /\ mounted = "ET") =>
       /\ et.leftAngleSmoothingRef = h.rawA * ScaleLimb
       /\ et.rightAngleSmoothingRef = h.rawB * ScaleLimb

\* C10: no frame callback throws, whatever landmarks the frame or the saved
\* reference lacks.
C10_FrameNeverThrows == h.threw = FALSE

\* C11: computePoseAngles has a key exactly for the configured joints whose
\* three landmarks are all present, holding that joint's angle; a joint with
\* an absent landmark has no key, and a frame without landmarks gives the
\* empty map.
C11_KeysArePresentJoints ==
  fn.op = "computePoseAngles" =>
    /\ DOMAIN fn.out =
         {j \in JointSet : \A k \in 1..3 : fn.arg[angleJoints[j][k]].ok}
    /\ \A j \in DOMAIN fn.out :
         fn.out[j] = calculateAngle(fn.arg[angleJoints[j][1]],
                                    fn.arg[angleJoints[j][2]],
                                    fn.arg[angleJoints[j][3]])
    /\ (\A i \in LandmarkIdx : ~fn.arg[i].ok) => DOMAIN fn.out = {}

\* a frame with the left knee absent and the right arm present
C11_Witness ==
  /\ fn.op = "computePoseAngles"
  /\ ~fn.arg[25].ok
  /\ "leftKnee" \notin DOMAIN fn.out /\ "leftHip" \notin DOMAIN fn.out
  /\ "rightElbow" \in DOMAIN fn.out

FnComparator == fn.op \in {"isNearPose", "isPoseMatch"}

\* C12: when the live angle map equals the reference angle map, isNearPose
\* and isPoseMatch return true for every tolerance >= 0.
C12_EqualMapsMatch ==
  (FnComparator /\ fn.arg.live = fn.arg.ref) => fn.out = TRUE

\* equal maps compared with tolerance 0
C12_Witness ==
  /\ FnComparator /\ fn.arg.live = fn.arg.ref /\ fn.arg.tolerance = 0
  /\ fn.out = TRUE

\* |live[j] - reference[j]| with a missing key read as 0
FnJointDiff(j) == Abs(OrZero(fn.arg.live, j) - OrZero(fn.arg.ref, j))

\* C13: isNearPose and isPoseMatch return true if and only if every
\* configured joint has |live[j] - reference[j]| <= tolerance, a key missing
\* from either map being read as 0.
C13_AllJointsWithinTolerance ==
  FnComparator =>
    (fn.out = TRUE <=> \A j \in JointSet : FnJointDiff(j) <= fn.arg.tolerance)

\* one call where the live key is missing and the joint therefore fails,
\* every other joint matching exactly
C13_Witness ==
  /\ FnComparator /\ fn.out = FALSE
  /\ \E j \in JointSet :
       /\ j \notin DOMAIN fn.arg.live /\ j \in DOMAIN fn.arg.ref
       /\ FnJointDiff(j) > fn.arg.tolerance
       /\ \A k \in JointSet \ {j} : FnJointDiff(k) = 0

\* the sum of the joint differences of the last call, joint by joint
RECURSIVE FnSumDiffs(_)
FnSumDiffs(joints) ==
  IF joints = {} THEN 0
  ELSE LET j == CHOOSE k \in joints : TRUE
       IN  FnJointDiff(j) + FnSumDiffs(joints \ {j})

\* C14: angleDistance is the sum over the configured joints of
\* |live[j] - reference[j]|, a missing key read as 0; it is never negative,
\* is 0 when the maps agree on every joint, and is the same both ways round.
C14_DistanceIsSumOfDifferences ==
  fn.op = "angleDistance" =>
    /\ fn.out[1] = FnSumDiffs(JointSet)
    /\ fn.out[1] >= 0
    /\ (\A j \in JointSet : FnJointDiff(j) = 0) => fn.out[1] = 0
    /\ fn.out[1] = fn.out[2]

\* a call where one joint is below and another above its reference, and a
\* key is missing from the live map
C14_Witness ==
  /\ fn.op = "angleDistance"
  /\ \E j \in JointSet : OrZero(fn.arg.live, j) < OrZero(fn.arg.ref, j)
  /\ \E j \in JointSet : OrZero(fn.arg.live, j) > OrZero(fn.arg.ref, j)
  /\ DOMAIN fn.arg.live # JointSet
  /\ fn.out[1] > 0

\* C15: on a compared frame whose live angles equal the reference angles on
\* every configured joint, the computed score is 100.
C15_ExactMatchScoresFull ==
  [][(/\ FrameStep /\ h'.obs = h.obs + 1 /\ mounted = "YG"
      /\ PoseAngles[yg'.latestPoseRef] = PoseAngles[yg.savedPoseRef])
       => yg'.currentScoreRef = 100]_vars

\* a matching frame that follows a frame with a non-zero smoothed error
C15_Witness ==
  /\ mounted = "YG" /\ h.obs >= 2 /\ h.rawB > 0
  /\ yg.latestPoseRef # NoFrame /\ yg.savedPoseRef # NoFrame
  /\ PoseAngles[yg.latestPoseRef] = PoseAngles[yg.savedPoseRef]
  /\ h.rawA = 0
  /\ yg.currentScoreRef = 100

\* smoothed errors from 0 to beyond the clamp, in units of 1/ScaleYG
ErrorSamples == {k * ScaleYG : k \in 0..24}

\* C16: the computed score and the published score are within 0..100; the
\* computed score is max(0, 100 - 5 * smoothedError), rounded, it does not
\* increase as the smoothed error grows, and it is 0 once
\* 5 * smoothedError >= 100.
C16_ScoreWithinRange ==
  /\ yg.currentScoreRef \in 0..100
  /\ yg.matchScore \in 0..100
  /\ yg.currentScoreRef =
       RoundYG(Max(0, 100 * ScaleYG - scoreMultiplier * yg.smoothedError))
  /\ scoreMultiplier * yg.smoothedError >= 100 * ScaleYG => yg.currentScoreRef = 0
  /\ \A e1 \in ErrorSamples, e2 \in ErrorSamples :
       e1 <= e2 => /\ scoreOf(e1) >= scoreOf(e2)
                   /\ scoreOf(e2) >= 0 /\ scoreOf(e2) <= 100 * ScaleYG

\* a clamped score has been published
C16_Witness ==
  /\ mounted = "YG"
  /\ scoreMultiplier * yg.smoothedError > 100 * ScaleYG
  /\ yg.currentScoreRef = 0 /\ yg.matchScore = 0

\* the positions of the hints for joint j in the last feedback list
FnHintsFor(j) == {i \in 1..Len(fn.out) : fn.out[i].joint = j}

\* C17: the feedback list of a compared frame has a hint for joint j if and
\* only if |live[j] - reference[j]| > 10, at most one per joint; the hint is
\* "Increase angle" when live < reference and "Decrease angle" when
\* live > reference.
C17_HintIffBeyondThreshold ==
  fn.op = "feedback" =>
    \A j \in JointSet :
      LET compared == j \in DOMAIN fn.arg.live
          diff == IF compared THEN fn.arg.live[j] - fn.arg.ref[j] ELSE 0
      IN  /\ Cardinality(FnHintsFor(j)) = IF Abs(diff) > 10 THEN 1 ELSE 0
          /\ \A i \in FnHintsFor(j) :
               fn.out[i].hint = IF diff < 0 THEN "Increase angle"
                                ELSE "Decrease angle"

\* one joint exactly 10 degrees off without a hint, others with hints both ways
C17_Witness ==
  /\ fn.op = "feedback"
  /\ \E j \in DOMAIN fn.arg.live :
       Abs(fn.arg.live[j] - fn.arg.ref[j]) = 10 /\ FnHintsFor(j) = {}
  /\ \E i \in 1..Len(fn.out) : fn.out[i].hint = "Increase angle"
  /\ \E i \in 1..Len(fn.out) : fn.out[i].hint = "Decrease angle"

\* C18: when the current shoulder anchors equal the saved anchors,
\* transformLandmarks returns every saved landmark with its x and y unchanged.
C18_EqualAnchorsGiveIdentity ==
  (/\ fn.op = "transformLandmarks"
   /\ fn.arg.currentLeft = fn.arg.savedLeft
   /\ fn.arg.currentRight = fn.arg.savedRight)
    => \A i \in LandmarkIdx :
         /\ SameCoord(fn.out[i].x, fn.arg.savedLandmarks[i].x)
         /\ SameCoord(fn.out[i].y, fn.arg.savedLandmarks[i].y)

\* the two shoulders of a pair coincide
Coincide(a, b) == a.x = b.x /\ a.y = b.y

\* C19: when one of the four shoulder anchors is absent the overlay does not
\* call transformLandmarks and draws no aligned reference, and a transform is
\* never computed from an absent or a coincident anchor pair.
C19_NoTransformFromBadAnchors ==
  fn.op = "overlay" =>
    LET savedLeft == fn.arg.savedPose.landmarks[11]
        savedRight == fn.arg.savedPose.landmarks[12]
        currentLeft == fn.arg.poseLandmarks[11]
        currentRight == fn.arg.poseLandmarks[12]
        absent == ~savedLeft.ok \/ ~savedRight.ok \/ ~currentLeft.ok
                    \/ ~currentRight.ok
    IN  /\ absent => ~fn.out.applied /\ ~fn.out.drawn
        /\ fn.out.applied =>
             /\ ~absent
             /\ ~Coincide(savedLeft, savedRight)
             /\ ~Coincide(currentLeft, currentRight)

\* the bearing difference of the last calculateAngle call
FnBearingDiff ==
  Abs(Atan2Deg(fn.arg[3].y - fn.arg[2].y, fn.arg[3].x - fn.arg[2].x)
      - Atan2Deg(fn.arg[1].y - fn.arg[2].y, fn.arg[1].x - fn.arg[2].x))

\* C20: calculateAngle returns a value in [0, 180]: the absolute bearing
\* difference, replaced by 360 minus itself when it exceeds 180.
C20_AngleWithinHalfTurn ==
  fn.op = "calculateAngle" =>
    /\ fn.out >= 0 /\ fn.out <= 180
    /\ fn.out = IF FnBearingDiff > 180 THEN 360 - FnBearingDiff ELSE FnBearingDiff

\* a call whose bearing difference was a reflex angle
C20_Witness == fn.op = "calculateAngle" /\ FnBearingDiff = 270 /\ fn.out = 90

\* C21: calculateAngle(A, B, C) = calculateAngle(C, B, A) for all points,
\* collinear and coincident ones included.
C21_AngleSymmetric ==
  fn.op = "calculateAngleBothWays" => fn.out[1] = fn.out[2]

\* outer points on different bearings, a reflex bearing difference one way
C21_Witness ==
  /\ fn.op = "calculateAngleBothWays" /\ fn.out = <<135, 135>>
  /\ Atan2Deg(fn.arg[3].y - fn.arg[2].y, fn.arg[3].x - fn.arg[2].x)
       - Atan2Deg(fn.arg[1].y - fn.arg[2].y, fn.arg[1].x - fn.arg[2].x) = 225

\* C22: the machine of App.tsx starts ready (not in motion) with a count of
\* 0, the exercise select returns it to that state, and the first repetition
\* credited after a reset follows an angle below minAngle seen after it.
C22_ResetReturnsToReady ==
  [][/\ (mounted = "AP" /\ ResetStep)
          => ~ap'.isSquattingRef /\ ap'.squatCountRef = 0
     /\ (mounted = "AP" /\ FrameStep /\ ap'.squatCountRef = ap.squatCountRef + 1)
          => h.lowSeen]_vars

\* a click on "Take Ref Pose" or the expiry of a countdown: saveRef is called
SaveAttempt ==
  \/ h'.saves = h.saves + 1 /\ h'.uiOp = "save"
  \/ h'.ticks = h.ticks + 1 /\ yg.count = 1
SelectStep == h'.saves = h.saves + 1 /\ h'.uiOp = "select"
DeleteStep == h'.saves = h.saves + 1 /\ h'.uiOp = "delete"

\* C23: savedPose becomes the captured landmarks on a successful save (first
\* or repeated), the selected stored pose on a selection and null on
\* deletePose; a save with no landmarks or with a cancelled or empty name
\* leaves savedPose and poseOptions as they were; nothing else changes
\* savedPose.
C23_ReferenceLifecycle ==
  [][mounted = "YG" =>
      /\ SaveAttempt =>
           IF yg.currentLandmarksRef # NoFrame /\ h'.uiArg # ""
           THEN /\ yg'.savedPose = yg.currentLandmarksRef
                /\ yg'.poseOptions =
                     Append(yg.poseOptions, [value |-> yg.currentLandmarksRef,
                                             label |-> h'.uiArg])
           ELSE /\ yg'.savedPose = yg.savedPose
                /\ yg'.poseOptions = yg.poseOptions
      /\ SelectStep =>
           /\ \E k \in 1..Len(yg.poseOptions) :
                yg'.savedPose = yg.poseOptions[k].value
           /\ yg'.savedPose = yg'.poseOptionSelected
           /\ yg'.poseOptions = yg.poseOptions
      /\ DeleteStep => yg'.savedPose = NoFrame
      /\ yg'.savedPose # yg.savedPose =>
           SaveAttempt \/ SelectStep \/ DeleteStep]_vars

\* two poses were saved, the second replacing the first as reference, and the
\* selected one was deleted: no reference, one stored pose left
C23_Witness ==
  /\ mounted = "YG" /\ h.uiOp = "delete"
  /\ yg.savedPose = NoFrame /\ Len(yg.poseOptions) = 1

\* C30: savePose(delay) with delay > 0 disables the save buttons and saves
\* nothing until the countdown expires; the tick number delay calls saveRef
\* with the landmarks current at that tick, stops the countdown and enables
\* the buttons again; savePose(0) saves at once and starts no countdown.
C30_CountdownSavesAtExpiry ==
  [][mounted = "YG" =>
      /\ (h'.saves = h.saves + 1 /\ h'.uiOp = "countdown") =>
           /\ ~yg.savePoseButtonDisabled /\ yg'.savePoseButtonDisabled
           /\ yg'.count = h'.delay /\ h'.delay > 0 /\ h'.ticks = 0
           /\ yg'.savedPose = yg.savedPose /\ yg'.poseOptions = yg.poseOptions
      /\ yg'.count > 0 => yg'.savePoseButtonDisabled
      /\ (h'.ticks = h.ticks + 1 /\ yg'.count > 0) =>
           /\ h'.ticks < h.delay
           /\ yg'.savedPose = yg.savedPose /\ yg'.poseOptions = yg.poseOptions
      /\ (h'.ticks = h.ticks + 1 /\ yg'.count = 0) =>
           /\ h'.ticks = h.delay
           /\ ~yg'.savePoseButtonDisabled /\ ~yg'.showTimer
           /\ IF yg.currentLandmarksRef # NoFrame /\ h'.uiArg # ""
              THEN /\ yg'.savedPose = yg.currentLandmarksRef
                   /\ Len(yg'.poseOptions) = Len(yg.poseOptions) + 1
              ELSE /\ yg'.savedPose = yg.savedPose
                   /\ yg'.poseOptions = yg.poseOptions
      /\ (h'.saves = h.saves + 1 /\ h'.uiOp = "save") =>
           /\ yg'.count = 0 /\ ~yg'.savePoseButtonDisabled /\ ~yg'.showTimer
           /\ h'.ticks = 0]_vars

\* a 3 second countdown has expired and saved landmarks that arrived after the
\* click
C30_Witness ==
  /\ mounted = "YG" /\ h.uiOp = "save" /\ h.delay = 3 /\ h.ticks = 3
  /\ h.itemAtClick # NoFrame /\ yg.savedPose # NoFrame
  /\ yg.savedPose # h.itemAtClick
  /\ yg.count = 0 /\ ~yg.savePoseButtonDisabled

\* C24: in the three-state tracker every frame that takes the committed
\* userPoseState from AT_START to AT_END adds exactly 1 to repCount, whether
\* or not the effect that copies userPoseState into userPoseStateRef has run
\* since the frame before.
C24_StartToEndCountsOnce ==
  [][(/\ mounted = "TS" /\ FrameStep
      /\ ts.userPoseState = "AT_START" /\ ts'.userPoseState = "AT_END")
       => ts'.repCount = ts.repCount + 1]_vars

\* the both-limbs machine of the mounted page: its phase, smoothed angles
\* and thresholds
BothLimbs ==
  IF mounted = "LG"
  THEN [phase |-> lg.phaseRef, left |-> lg.leftAngleSmoothingRef,
        right |-> lg.rightAngleSmoothingRef, rep |-> lg.repCount,
        minAngle |-> minAngleLG, maxAngle |-> maxAngleLG]
  ELSE [phase |-> et.phaseRef, left |-> et.leftAngleSmoothingRef,
        right |-> et.rightAngleSmoothingRef, rep |-> et.repCount,
        minAngle |-> exerciseRules[et.closureExercise].minAngle,
        maxAngle |-> exerciseRules[et.closureExercise].maxAngle]

\* C25: in the both-limbs trackers a frame takes the phase from up to down
\* only when the smoothed left and the smoothed right angle are both below
\* minAngle, and from down to up, adding one repetition, only when both are
\* above maxAngle; a frame that changes neither phase leaves the count alone.
C25_BothLimbsMustAgree ==
  [][(mounted \in {"LG", "ET"} /\ FrameStep) =>
      /\ (BothLimbs.phase = "up" /\ BothLimbs'.phase = "down") =>
           /\ BothLimbs'.left < BothLimbs.minAngle * ScaleLimb
           /\ BothLimbs'.right < BothLimbs.minAngle * ScaleLimb
           /\ BothLimbs'.rep = BothLimbs.rep
      /\ (BothLimbs.phase = "down" /\ BothLimbs'.phase = "up") =>
           /\ BothLimbs'.left > BothLimbs.maxAngle * ScaleLimb
           /\ BothLimbs'.right > BothLimbs.maxAngle * ScaleLimb
           /\ BothLimbs'.rep = BothLimbs.rep + 1
      /\ BothLimbs'.phase = BothLimbs.phase => BothLimbs'.rep = BothLimbs.rep]_vars

\* the left knee alone is below minAngle and the phase is still up
C25_Witness ==
  /\ mounted = "LG" /\ h.obs >= 1 /\ lg.phaseRef = "up"
  /\ lg.leftAngleSmoothingRef # Null
  /\ lg.leftAngleSmoothingRef < minAngleLG * ScaleLimb
  /\ lg.rightAngleSmoothingRef > maxAngleLG * ScaleLimb

\* the live pose qualifies for the start / end reference: the smoothed
\* distance the frame has just stored is under the threshold
QualifiesStart == nm.smoothedDistToStartRef < thresholdStart * ScaleNM
QualifiesEnd == nm.smoothedDistToEndRef < thresholdEnd * ScaleNM

\* C26: after every frame that runs the repetition logic the pending
\* candidate is 'up' if the pose qualifies for the start reference (also when
\* it qualifies for the end reference too), 'down' if it qualifies for the
\* end reference only, and 'none' otherwise, whatever the committed phase.
C26_StartHasPriority ==
  [][(mounted = "NM" /\ FrameStep /\ h'.obs = h.obs + 1) =>
      nm'.pendingPhaseRef =
        IF QualifiesStart' THEN "up"
        ELSE IF QualifiesEnd' THEN "down" ELSE "none"]_vars

\* a frame near both references, after the smoothers have left 0, was given
\* the candidate 'up' while 'down' is committed
C26_Witness ==
  /\ mounted = "NM" /\ h.obs >= 1 /\ h.cand = "up"
  /\ QualifiesStart /\ QualifiesEnd
  /\ nm.smoothedDistToEndRef > 0
  /\ nm.pendingPhaseRef = "up" /\ nm.phaseRef = "down"

\* the down-to-up transitions a frame made in the per-leg tracker
LeftCameUp == pl.leftPhaseRef = "down" /\ pl'.leftPhaseRef = "up"
RightCameUp == pl.rightPhaseRef = "down" /\ pl'.rightPhaseRef = "up"

\* C27: in the per-leg lunge tracker a frame moves the left phase only by the
\* smoothed left angle and the right phase only by the smoothed right angle;
\* every down-to-up transition of a leg adds 1 to the shared counter, so a
\* frame adds 0, 1 or 2.
C27_LegsAreIndependent ==
  [][(mounted = "PL" /\ FrameStep) =>
      /\ (pl.leftPhaseRef = "up" /\ pl'.leftPhaseRef = "down")
           => pl'.leftAngleSmoothingRef < minAngleLG * ScaleLimb
      /\ LeftCameUp => pl'.leftAngleSmoothingRef > maxAngleLG * ScaleLimb
      /\ (pl.rightPhaseRef = "up" /\ pl'.rightPhaseRef = "down")
           => pl'.rightAngleSmoothingRef < minAngleLG * ScaleLimb
      /\ RightCameUp => pl'.rightAngleSmoothingRef > maxAngleLG * ScaleLimb
      /\ pl'.repCount = pl.repCount + (IF LeftCameUp THEN 1 ELSE 0)
                                    + (IF RightCameUp THEN 1 ELSE 0)
      /\ pl'.repCount <= pl.repCount + 2]_vars

\* the fourth frame brought both legs up at once and credited two repetitions
C27_Witness ==
  /\ mounted = "PL" /\ h.frames = 4 /\ pl.repCount = 2
  /\ pl.leftPhaseRef = "up" /\ pl.rightPhaseRef = "up"

CommittedDown ==
  CASE mounted = "LG" -> lg.phaseRef = "down"
    [] mounted = "RT" -> rt.phaseRef = "down"
    [] mounted = "AP" -> ap.isSquattingRef
    [] OTHER -> FALSE

\* C31: in a two-phase machine the counter never exceeds the number of
\* up-to-down transitions the instance has made, and every increment is a
\* step out of a committed 'down' phase, so two increments always have a
\* 'down' phase between them.
C31_RepsAlternateWithDowns ==
  /\ [](mounted \in ThresholdPages => Rep <= h.downs)
  /\ [][(mounted \in ThresholdPages /\ Rep' > Rep)
          => (CommittedDown /\ ~CommittedDown' /\ Rep' = Rep + 1)]_vars

C31_Witness == mounted = "RT" /\ rt.repCount = 1 /\ h.downs = 1

\* the smoothed signals a threshold machine holds lie within its band
LGInBand ==
  /\ lg.leftAngleSmoothingRef # Null
  /\ lg.leftAngleSmoothingRef >= minAngleLG * ScaleLimb
  /\ lg.leftAngleSmoothingRef <= maxAngleLG * ScaleLimb
  /\ lg.rightAngleSmoothingRef >= minAngleLG * ScaleLimb
  /\ lg.rightAngleSmoothingRef <= maxAngleLG * ScaleLimb

RTInBand ==
  /\ rt.elbowAngleSmoothingRef # Null
  /\ rt.elbowAngleSmoothingRef >= minPushupAngle * ScaleRT
  /\ rt.elbowAngleSmoothingRef <= maxPushupAngle * ScaleRT

\* C32: a frame that leaves the smoothed signal(s) of a threshold machine
\* within [minAngle, maxAngle] changes neither the committed phase nor the
\* counter, whatever the phase; and no frame both enters and leaves 'down',
\* that is, no frame that starts in 'up' credits a repetition.
C32_BandFrameChangesNothing ==
  [][/\ (mounted = "LG" /\ FrameStep /\ LGInBand')
          => (lg'.phaseRef = lg.phaseRef /\ lg'.repCount = lg.repCount)
     /\ (mounted = "RT" /\ FrameStep /\ RTInBand')
          => (rt'.phaseRef = rt.phaseRef /\ rt'.repCount = rt.repCount)
     /\ (mounted \in {"LG", "RT"} /\ FrameStep /\ ~CommittedDown)
          => Rep' = Rep]_vars

C32_Witness ==
  /\ mounted = "LG"
  /\ h.obs >= 2
  /\ lg.phaseRef = "down"
  /\ LGInBand


\* both reference poses of the mounted saved-pair variant are saved
BothPosesSaved ==
  CASE mounted = "NM" -> nm.startPoseRef # NoFrame /\ nm.endPoseRef # NoFrame
    [] mounted = "TS" -> /\ ts.startPoseAnglesRef # Unsaved
                         /\ ts.endPoseAnglesRef # Unsaved
    [] mounted = "PM" -> pm.startPoseAnglesRef.saved /\ pm.endPoseAnglesRef.saved
    [] OTHER -> TRUE

PairPhase ==
  CASE mounted = "NM" -> nm.phaseRef
    [] mounted = "TS" -> ts.userPoseState
    [] mounted = "PM" -> pm.userPoseState
    [] OTHER -> "none"

\* C33: in the saved-pose-pair variants no frame changes the phase or the
\* repetition count before both the start and the end reference pose are
\* saved.
C33_NoCountingBeforeBothSaved ==
  [][(mounted \in {"NM", "TS", "PM"} /\ FrameStep /\ ~BothPosesSaved)
       => (PairPhase' = PairPhase /\ Rep' = Rep)]_vars

\* the guarded variants (part_000, PushupTracker.tsx) keep that property
C33_GuardedVariantsHold ==
  [][(mounted \in {"NM", "TS"} /\ FrameStep /\ ~BothPosesSaved)
       => (PairPhase' = PairPhase /\ Rep' = Rep)]_vars

\* part_002: the phase is AT_START while the end pose is still unsaved
C33_PhaseChangedBeforeEndSaved ==
  /\ mounted = "PM"
  /\ pm.userPoseState = "AT_START"
  /\ pm.startPoseAngles.saved
  /\ ~pm.endPoseAngles.saved


\* C34: after any sequence of immediate saves, countdown saves, selections
\* and deletions, the list persisted under 'allYogaPose' equals the
\* in-memory poseOptions list, also when a deletion or another save happens
\* while a countdown save is pending.
C34_PersistedEqualsPoseOptions ==
  mounted = "YG" => yg.allYogaPose = yg.poseOptions

\* without a countdown save overlapping another list change the lists agree
C34_AgreeBeforeAnyCountdownSave ==
  (mounted = "YG" /\ h.delay = 0) => yg.allYogaPose = yg.poseOptions

\* a countdown save has just written a list that still holds a deleted pose
C34_DeletedPoseResurrected ==
  /\ mounted = "YG"
  /\ h.uiOp = "save"
  /\ h.delay > 0
  /\ Len(yg.allYogaPose) > Len(yg.poseOptions)


ARCallStep == ar'.ops = ar.ops + 1
ARDelivered == ar'.calls = ar.calls + 1

C36_SuspendedImpliesRecording ==
  mounted = "REC" => (ar.isSuspended => ar.isRecording)

\* the no-op half of C36, which the code keeps
C36_MicCallsIgnoredWhenStopped ==
  [][(mounted = "REC" /\ ARCallStep /\ ~ar.isRecording
        /\ ar'.op \in {"suspendMic", "resumeMic", "toggleMic"})
       => ar' = [ar EXCEPT !.ops = @ + 1, !.op = ar'.op]]_vars

\* stop() returned on a suspended recorder
C36_StoppedWhileSuspended ==
  /\ mounted = "REC"
  /\ ar.op = "stop"
  /\ ar.isSuspended
  /\ ~ar.isRecording


\* C37: after every processChunk call 0 <= bufferWriteIndex < 2048; a chunk
\* is posted exactly when the 2048th sample of the buffer is written and
\* holds exactly 2048 samples, each within [-32768, 32767]; every input
\* sample is in exactly one chunk (or still in the buffer), in input order.
C37_ChunksPartitionTheInput ==
  (mounted = "WK" /\ wk # WKNone) =>
    /\ 0 <= wk.bufferWriteIndex /\ wk.bufferWriteIndex < BufferLength
    /\ Len(wk.posted) = wk.consumed \div BufferLength
    /\ wk.bufferWriteIndex = wk.consumed % BufferLength
    /\ wk.errors = 0
    /\ \A k \in 1..Len(wk.posted) :
         /\ Len(wk.posted[k]) = BufferLength
         /\ \A j \in 1..BufferLength :
              /\ wk.posted[k][j] >= -32768 /\ wk.posted[k][j] <= 32767
              /\ wk.posted[k][j] =
                   toInt16(SampleAt(wk.start, (k - 1) * BufferLength + j - 1))
    /\ \A j \in 1..wk.bufferWriteIndex :
         wk.buffer[j] =
           toInt16(SampleAt(wk.start, Len(wk.posted) * BufferLength + j - 1))

\* two chunks posted, the second completed in the middle of a block, and
\* samples of the third waiting in the buffer
C37_Witness ==
  /\ mounted = "WK"
  /\ Len(wk.posted) = 2
  /\ wk.bufferWriteIndex > 0
  /\ wk.consumed % 128 # 0

====
